---- MODULE Spec2Model ----
(***************************************************************************)
(* PSX breakout scanner (src/app.py): the symbol filter of main and the    *)
(* per-row classification loop of calculate_breakout_stats.                *)
(*                                                                         *)
(* Text is a sequence of code points, so that strip, upper, replace,       *)
(* substring search, int(), float() and the f-string formats are computed  *)
(* character by character.  A float is held as the exact decimal expansion *)
(* of its binary value.                                                    *)
(***************************************************************************)
EXTENDS Integers, Sequences, FiniteSets, TLC

VARIABLES symbols_data, snapshot, today_data, prev_day_data, prev_week_data,
          prev_month_data, pc, idx, results

\* main, lines 528-576, and the two window functions: the clock, the dates
\* the exchange has no data for, the locals of the searches and loops, and
\* the dates handed to fetch_market_data so far
VARIABLES now, closed, at, date_to_try, attempts, today_found, today_date,
          target_date,
          days_back, prev_day_found, prev_monday, prev_friday,
          first_day_prev_month, last_day_prev_month, current_date, all_data,
          prev_week_found, prev_month_found, fetched

\* fetch_psx: its arguments, the loop variable, the responses received, the
\* sleeps made, the attempt whose frame was returned and the way the call ended
VARIABLES retries, delay, attempt, responses, sleeps, df, outcome

statsvars == <<symbols_data, snapshot, today_data, prev_day_data,
               prev_week_data, prev_month_data, pc, idx, results>>

datevars == <<now, closed, at, date_to_try, attempts, today_found,
              today_date, target_date,
              days_back, prev_day_found, prev_monday, prev_friday,
              first_day_prev_month, last_day_prev_month, current_date,
              all_data, prev_week_found, prev_month_found, fetched>>

psxvars == <<retries, delay, attempt, responses, sleeps, df, outcome>>

vars == <<statsvars, datevars, psxvars>>

(***************************************************************************)
(* Text primitives of the Python runtime.  A character is its code point   *)
(* (ord), a text the sequence of its code points.                          *)
(***************************************************************************)
\* the printable ASCII characters in code order from the blank (32) to the
\* tilde (126); the grave accent (96), which a string of this language
\* cannot hold, is left empty
Ascii ==
    <<" ", "!", "\"", "#", "$", "%", "&", "'", "(", ")", "*", "+", ",",
      "-", ".", "/", "0", "1", "2", "3", "4", "5", "6", "7", "8", "9",
      ":", ";", "<", "=", ">", "?", "@", "A", "B", "C", "D", "E", "F",
      "G", "H", "I", "J", "K", "L", "M", "N", "O", "P", "Q", "R", "S",
      "T", "U", "V", "W", "X", "Y", "Z", "[", "\\", "]", "^", "_", "",
      "a", "b", "c", "d", "e", "f", "g", "h", "i", "j", "k", "l", "m",
      "n", "o", "p", "q", "r", "s", "t", "u", "v", "w", "x", "y", "z",
      "{", "|", "}", "~">>

\* ord() of a character written in this module: a printable ASCII
\* character, a tab or a newline
Ord(ch) ==
    IF ch = "\t" THEN 9
    ELSE IF ch = "\n" THEN 10
    ELSE 31 + CHOOSE i \in 1..95 : Ascii[i] = ch

\* the text of a sequence of such characters
Text(s) == [i \in 1..Len(s) |-> Ord(s[i])]

\* the characters whose upper case is one other character: from, to, step
\* and the distance to the upper case (Unicode 14, the tables of CPython
\* 3.11)
UpperRanges ==
    {<<97, 122, 1, -32>>, <<181, 181, 1, 743>>, <<224, 246, 1, -32>>,
      <<248, 254, 1, -32>>, <<255, 255, 1, 121>>, <<257, 303, 2, -1>>,
      <<305, 305, 1, -232>>, <<307, 311, 2, -1>>, <<314, 328, 2, -1>>,
      <<331, 375, 2, -1>>, <<378, 382, 2, -1>>, <<383, 383, 1, -300>>,
      <<384, 384, 1, 195>>, <<387, 389, 2, -1>>, <<392, 392, 1, -1>>,
      <<396, 396, 1, -1>>, <<402, 402, 1, -1>>, <<405, 405, 1, 97>>,
      <<409, 409, 1, -1>>, <<410, 410, 1, 163>>, <<414, 414, 1, 130>>,
      <<417, 421, 2, -1>>, <<424, 424, 1, -1>>, <<429, 429, 1, -1>>,
      <<432, 432, 1, -1>>, <<436, 438, 2, -1>>, <<441, 441, 1, -1>>,
      <<445, 445, 1, -1>>, <<447, 447, 1, 56>>, <<453, 453, 1, -1>>,
      <<454, 454, 1, -2>>, <<456, 456, 1, -1>>, <<457, 457, 1, -2>>,
      <<459, 459, 1, -1>>, <<460, 460, 1, -2>>, <<462, 476, 2, -1>>,
      <<477, 477, 1, -79>>, <<479, 495, 2, -1>>, <<498, 498, 1, -1>>,
      <<499, 499, 1, -2>>, <<501, 501, 1, -1>>, <<505, 543, 2, -1>>,
      <<547, 563, 2, -1>>, <<572, 572, 1, -1>>, <<575, 576, 1, 10815>>,
      <<578, 578, 1, -1>>, <<583, 591, 2, -1>>, <<592, 592, 1, 10783>>,
      <<593, 593, 1, 10780>>, <<594, 594, 1, 10782>>,
      <<595, 595, 1, -210>>, <<596, 596, 1, -206>>, <<598, 599, 1, -205>>,
      <<601, 601, 1, -202>>, <<603, 603, 1, -203>>, <<604, 604, 1, 42319>>,
      <<608, 608, 1, -205>>, <<609, 609, 1, 42315>>, <<611, 611, 1, -207>>,
      <<613, 613, 1, 42280>>, <<614, 614, 1, 42308>>,
      <<616, 616, 1, -209>>, <<617, 617, 1, -211>>, <<618, 618, 1, 42308>>,
      <<619, 619, 1, 10743>>, <<620, 620, 1, 42305>>,
      <<623, 623, 1, -211>>, <<625, 625, 1, 10749>>, <<626, 626, 1, -213>>,
      <<629, 629, 1, -214>>, <<637, 637, 1, 10727>>, <<640, 640, 1, -218>>,
      <<642, 642, 1, 42307>>, <<643, 643, 1, -218>>,
      <<647, 647, 1, 42282>>, <<648, 648, 1, -218>>, <<649, 649, 1, -69>>,
      <<650, 651, 1, -217>>, <<652, 652, 1, -71>>, <<658, 658, 1, -219>>,
      <<669, 669, 1, 42261>>, <<670, 670, 1, 42258>>, <<837, 837, 1, 84>>,
      <<881, 883, 2, -1>>, <<887, 887, 1, -1>>, <<891, 893, 1, 130>>,
      <<940, 940, 1, -38>>, <<941, 943, 1, -37>>, <<945, 961, 1, -32>>,
      <<962, 962, 1, -31>>, <<963, 971, 1, -32>>, <<972, 972, 1, -64>>,
      <<973, 974, 1, -63>>, <<976, 976, 1, -62>>, <<977, 977, 1, -57>>,
      <<981, 981, 1, -47>>, <<982, 982, 1, -54>>, <<983, 983, 1, -8>>,
      <<985, 1007, 2, -1>>, <<1008, 1008, 1, -86>>, <<1009, 1009, 1, -80>>,
      <<1010, 1010, 1, 7>>, <<1011, 1011, 1, -116>>,
      <<1013, 1013, 1, -96>>, <<1016, 1016, 1, -1>>, <<1019, 1019, 1, -1>>,
      <<1072, 1103, 1, -32>>, <<1104, 1119, 1, -80>>,
      <<1121, 1153, 2, -1>>, <<1163, 1215, 2, -1>>, <<1218, 1230, 2, -1>>,
      <<1231, 1231, 1, -15>>, <<1233, 1327, 2, -1>>,
      <<1377, 1414, 1, -48>>, <<4304, 4346, 1, 3008>>,
      <<4349, 4351, 1, 3008>>, <<5112, 5117, 1, -8>>,
      <<7296, 7296, 1, -6254>>, <<7297, 7297, 1, -6253>>,
      <<7298, 7298, 1, -6244>>, <<7299, 7300, 1, -6242>>,
      <<7301, 7301, 1, -6243>>, <<7302, 7302, 1, -6236>>,
      <<7303, 7303, 1, -6181>>, <<7304, 7304, 1, 35266>>,
      <<7545, 7545, 1, 35332>>, <<7549, 7549, 1, 3814>>,
      <<7566, 7566, 1, 35384>>, <<7681, 7829, 2, -1>>,
      <<7835, 7835, 1, -59>>, <<7841, 7935, 2, -1>>, <<7936, 7943, 1, 8>>,
      <<7952, 7957, 1, 8>>, <<7968, 7975, 1, 8>>, <<7984, 7991, 1, 8>>,
      <<8000, 8005, 1, 8>>, <<8017, 8023, 2, 8>>, <<8032, 8039, 1, 8>>,
      <<8048, 8049, 1, 74>>, <<8050, 8053, 1, 86>>, <<8054, 8055, 1, 100>>,
      <<8056, 8057, 1, 128>>, <<8058, 8059, 1, 112>>,
      <<8060, 8061, 1, 126>>, <<8112, 8113, 1, 8>>,
      <<8126, 8126, 1, -7205>>, <<8144, 8145, 1, 8>>, <<8160, 8161, 1, 8>>,
      <<8165, 8165, 1, 7>>, <<8526, 8526, 1, -28>>, <<8560, 8575, 1, -16>>,
      <<8580, 8580, 1, -1>>, <<9424, 9449, 1, -26>>,
      <<11312, 11359, 1, -48>>, <<11361, 11361, 1, -1>>,
      <<11365, 11365, 1, -10795>>, <<11366, 11366, 1, -10792>>,
      <<11368, 11372, 2, -1>>, <<11379, 11379, 1, -1>>,
      <<11382, 11382, 1, -1>>, <<11393, 11491, 2, -1>>,
      <<11500, 11502, 2, -1>>, <<11507, 11507, 1, -1>>,
      <<11520, 11557, 1, -7264>>, <<11559, 11559, 1, -7264>>,
      <<11565, 11565, 1, -7264>>, <<42561, 42605, 2, -1>>,
      <<42625, 42651, 2, -1>>, <<42787, 42799, 2, -1>>,
      <<42803, 42863, 2, -1>>, <<42874, 42876, 2, -1>>,
      <<42879, 42887, 2, -1>>, <<42892, 42892, 1, -1>>,
      <<42897, 42899, 2, -1>>, <<42900, 42900, 1, 48>>,
      <<42903, 42921, 2, -1>>, <<42933, 42947, 2, -1>>,
      <<42952, 42954, 2, -1>>, <<42961, 42961, 1, -1>>,
      <<42967, 42969, 2, -1>>, <<42998, 42998, 1, -1>>,
      <<43859, 43859, 1, -928>>, <<43888, 43967, 1, -38864>>,
      <<65345, 65370, 1, -32>>, <<66600, 66639, 1, -40>>,
      <<66776, 66811, 1, -40>>, <<66967, 66977, 1, -39>>,
      <<66979, 66993, 1, -39>>, <<66995, 67001, 1, -39>>,
      <<67003, 67004, 1, -39>>, <<68800, 68850, 1, -64>>,
      <<71872, 71903, 1, -32>>, <<93792, 93823, 1, -32>>,
      <<125218, 125251, 1, -34>>}

\* the characters whose upper case is more than one character
UpperSpecial ==
    {<<223, <<83, 83>>>>, <<329, <<700, 78>>>>, <<496, <<74, 780>>>>,
      <<912, <<921, 776, 769>>>>, <<944, <<933, 776, 769>>>>,
      <<1415, <<1333, 1362>>>>, <<7830, <<72, 817>>>>,
      <<7831, <<84, 776>>>>, <<7832, <<87, 778>>>>, <<7833, <<89, 778>>>>,
      <<7834, <<65, 702>>>>, <<8016, <<933, 787>>>>,
      <<8018, <<933, 787, 768>>>>, <<8020, <<933, 787, 769>>>>,
      <<8022, <<933, 787, 834>>>>, <<8064, <<7944, 921>>>>,
      <<8065, <<7945, 921>>>>, <<8066, <<7946, 921>>>>,
      <<8067, <<7947, 921>>>>, <<8068, <<7948, 921>>>>,
      <<8069, <<7949, 921>>>>, <<8070, <<7950, 921>>>>,
      <<8071, <<7951, 921>>>>, <<8072, <<7944, 921>>>>,
      <<8073, <<7945, 921>>>>, <<8074, <<7946, 921>>>>,
      <<8075, <<7947, 921>>>>, <<8076, <<7948, 921>>>>,
      <<8077, <<7949, 921>>>>, <<8078, <<7950, 921>>>>,
      <<8079, <<7951, 921>>>>, <<8080, <<7976, 921>>>>,
      <<8081, <<7977, 921>>>>, <<8082, <<7978, 921>>>>,
      <<8083, <<7979, 921>>>>, <<8084, <<7980, 921>>>>,
      <<8085, <<7981, 921>>>>, <<8086, <<7982, 921>>>>,
      <<8087, <<7983, 921>>>>, <<8088, <<7976, 921>>>>,
      <<8089, <<7977, 921>>>>, <<8090, <<7978, 921>>>>,
      <<8091, <<7979, 921>>>>, <<8092, <<7980, 921>>>>,
      <<8093, <<7981, 921>>>>, <<8094, <<7982, 921>>>>,
      <<8095, <<7983, 921>>>>, <<8096, <<8040, 921>>>>,
      <<8097, <<8041, 921>>>>, <<8098, <<8042, 921>>>>,
      <<8099, <<8043, 921>>>>, <<8100, <<8044, 921>>>>,
      <<8101, <<8045, 921>>>>, <<8102, <<8046, 921>>>>,
      <<8103, <<8047, 921>>>>, <<8104, <<8040, 921>>>>,
      <<8105, <<8041, 921>>>>, <<8106, <<8042, 921>>>>,
      <<8107, <<8043, 921>>>>, <<8108, <<8044, 921>>>>,
      <<8109, <<8045, 921>>>>, <<8110, <<8046, 921>>>>,
      <<8111, <<8047, 921>>>>, <<8114, <<8122, 921>>>>,
      <<8115, <<913, 921>>>>, <<8116, <<902, 921>>>>,
      <<8118, <<913, 834>>>>, <<8119, <<913, 834, 921>>>>,
      <<8124, <<913, 921>>>>, <<8130, <<8138, 921>>>>,
      <<8131, <<919, 921>>>>, <<8132, <<905, 921>>>>,
      <<8134, <<919, 834>>>>, <<8135, <<919, 834, 921>>>>,
      <<8140, <<919, 921>>>>, <<8146, <<921, 776, 768>>>>,
      <<8147, <<921, 776, 769>>>>, <<8150, <<921, 834>>>>,
      <<8151, <<921, 776, 834>>>>, <<8162, <<933, 776, 768>>>>,
      <<8163, <<933, 776, 769>>>>, <<8164, <<929, 787>>>>,
      <<8166, <<933, 834>>>>, <<8167, <<933, 776, 834>>>>,
      <<8178, <<8186, 921>>>>, <<8179, <<937, 921>>>>,
      <<8180, <<911, 921>>>>, <<8182, <<937, 834>>>>,
      <<8183, <<937, 834, 921>>>>, <<8188, <<937, 921>>>>,
      <<64256, <<70, 70>>>>, <<64257, <<70, 73>>>>, <<64258, <<70, 76>>>>,
      <<64259, <<70, 70, 73>>>>, <<64260, <<70, 70, 76>>>>,
      <<64261, <<83, 84>>>>, <<64262, <<83, 84>>>>,
      <<64275, <<1348, 1350>>>>, <<64276, <<1348, 1333>>>>,
      <<64277, <<1348, 1339>>>>, <<64278, <<1358, 1350>>>>,
      <<64279, <<1348, 1341>>>>}

\* the upper case of c, given the entries of the two tables that hold for it
UpperFrom(c, special, ranges) ==
    IF special # {} THEN (CHOOSE e \in special : TRUE)[2]
    ELSE IF ranges # {} THEN <<c + (CHOOSE r \in ranges : TRUE)[4]>>
    ELSE <<c>>

\* str.upper() on one character; below 128 only a-z change
UpperChar(c) ==
    IF c < 128 THEN IF c \in 97..122 THEN <<c - 32>> ELSE <<c>>
    ELSE UpperFrom(c, {e \in UpperSpecial : e[1] = c},
                   {r \in UpperRanges :
                        r[1] <= c /\ c <= r[2] /\ (c - r[1]) % r[3] = 0})

\* str.upper()
RECURSIVE Upper(_)
Upper(s) ==
    IF s = <<>> THEN <<>>
    ELSE IF Len(s) = 1 THEN UpperChar(s[1])
    ELSE Upper(SubSeq(s, 1, Len(s) \div 2))
             \o Upper(SubSeq(s, Len(s) \div 2 + 1, Len(s)))

\* the whitespace int() and float() skip around a literal: tab, newline,
\* vertical tab, form feed, carriage return, blank, NEL, the no-break space,
\* the ogham space mark, U+2000..U+200A, the line and paragraph separators,
\* the narrow no-break space, the medium mathematical space and the
\* ideographic space
NumberSpace ==
    {9, 10, 11, 12, 13, 32, 133, 160, 5760} \cup (8192..8202)
        \cup {8232, 8233, 8239, 8287, 12288}

\* the characters str.isspace() holds for: those and the separators
\* U+001C..U+001F
Whitespace == NumberSpace \cup (28..31)

\* a text without the characters of `chars` at its two ends
StripOf(s, chars) ==
    LET keep == {i \in 1..Len(s) : s[i] \notin chars}
    IN  IF keep = {} THEN <<>>
        ELSE SubSeq(s, CHOOSE i \in keep : \A j \in keep : i <= j,
                    CHOOSE i \in keep : \A j \in keep : j <= i)

\* str.strip()
Strip(s) == StripOf(s, Whitespace)

\* a literal handed to int() or float() without the whitespace around it
NumberText(s) == StripOf(s, NumberSpace)

Comma == Ord(",")

Minus == Ord("-")

Plus == Ord("+")

Point == Ord(".")

Underscore == Ord("_")

\* x.replace(',', '')
RemoveCommas(s) == SelectSeq(s, LAMBDA c : c # Comma)

\* `sub in s` for text
Contains(s, sub) ==
    \E i \in 0..(Len(s) - Len(sub)) : SubSeq(s, i + 1, i + Len(sub)) = sub

(***************************************************************************)
(* Values of the classifier's locals.  k = "num": a finite float, or an    *)
(* int whose fp is empty, held as its sign and its decimal expansion: the  *)
(* digits before the point (no leading zero, none for 0) and the digits    *)
(* after it (no trailing zero), each a number 0..9.  A float has 53 binary *)
(* digits, so its decimal expansion is finite and float() of a text is the *)
(* expansion of the float nearest to the text's value.                     *)
(* "inf": an infinity; "nan": float('nan'); "int": the numpy integer 0;    *)
(* "na": the text "N/A"; "err": the conversion raised.                     *)
(***************************************************************************)
Finite(neg, ip, fp) == [k |-> "num", neg |-> neg, ip |-> ip, fp |-> fp]

Zero == Finite(FALSE, <<>>, <<>>)

Inf(neg) == [k |-> "inf", neg |-> neg, ip |-> <<>>, fp |-> <<>>]

NaN == [k |-> "nan", neg |-> FALSE, ip |-> <<>>, fp |-> <<>>]

IntZero == [k |-> "int", neg |-> FALSE, ip |-> <<>>, fp |-> <<>>]

NA == [k |-> "na", neg |-> FALSE, ip |-> <<>>, fp |-> <<>>]

Err == [k |-> "err", neg |-> FALSE, ip |-> <<>>, fp |-> <<>>]

\* the code points of the zeros of the decimal digits; the digits 1..9 of a
\* script follow its zero
DigitZeros ==
    {48, 1632, 1776, 1984, 2406, 2534, 2662, 2790, 2918, 3046, 3174, 3302,
     3430, 3558, 3664, 3792, 3872, 4160, 4240, 6112, 6160, 6470, 6608,
     6784, 6800, 6992, 7088, 7232, 7248, 42528, 43216, 43264, 43472, 43504,
     43600, 44016, 65296, 66720, 68912, 69734, 69872, 69942, 70096, 70384,
     70736, 70864, 71248, 71360, 71472, 71904, 72016, 72784, 73040, 73120,
     92768, 92864, 93008, 120782, 120792, 120802, 120812, 120822, 123200,
     123632, 125264, 130032}

\* a decimal digit of any script, as int() and float() read them
IsDigit(c) == \E z \in DigitZeros : z <= c /\ c <= z + 9

DigitVal(c) == c - (CHOOSE z \in DigitZeros : z <= c /\ c <= z + 9)

\* the digits 0..9 of a run of digit characters, and back in ASCII
DigitValues(s) == [i \in 1..Len(s) |-> DigitVal(s[i])]

DigitZero == Ord("0")

DigitChars(d) == [i \in 1..Len(d) |-> DigitZero + d[i]]

\* the natural number of a run of at most nine digits
RECURSIVE Natural(_)
Natural(d) ==
    IF d = <<>> THEN 0
    ELSE 10 * Natural(SubSeq(d, 1, Len(d) - 1)) + d[Len(d)]

\* value of a run of digit characters
DigitsVal(s) == Natural(DigitValues(s))

\* digits with single underscores between them, as int() and float() accept
DigitPart(s) ==
    /\ s # <<>> /\ IsDigit(s[1]) /\ IsDigit(s[Len(s)])
    /\ \A i \in 1..Len(s) : IsDigit(s[i]) \/ s[i] = Underscore
    /\ \A i \in 1..(Len(s) - 1) : ~(s[i] = Underscore /\ s[i + 1] = Underscore)

OnlyDigits(s) == SelectSeq(s, IsDigit)

\* a literal starts with the minus sign; the literal after its sign
Negative(t) == t # <<>> /\ Head(t) = Minus

Unsigned(t) == IF t # <<>> /\ Head(t) \in {Minus, Plus} THEN Tail(t) ELSE t

NotZero(d) == \E i \in 1..Len(d) : d[i] # 0

DropLeadingZeros(d) ==
    IF NotZero(d)
    THEN SubSeq(d, CHOOSE i \in 1..Len(d) :
                       d[i] # 0 /\ \A j \in 1..(i - 1) : d[j] = 0, Len(d))
    ELSE <<>>

DropTrailingZeros(d) ==
    IF NotZero(d)
    THEN SubSeq(d, 1, CHOOSE i \in 1..Len(d) :
                          d[i] # 0 /\ \A j \in (i + 1)..Len(d) : d[j] = 0)
    ELSE <<>>

\* n zeros, none for n <= 0
Zeros(n) == [i \in 1..(IF n > 0 THEN n ELSE 0) |-> 0]

\* x < y for digit runs of one length
LexLess(x, y) ==
    \E i \in 1..Len(x) : x[i] < y[i] /\ \A j \in 1..(i - 1) : x[j] = y[j]

\* x < y for digit runs read as fractions 0.x and 0.y
FracLess(x, y) ==
    LexLess(x \o Zeros(Len(y) - Len(x)), y \o Zeros(Len(x) - Len(y)))

\* the digits ip.fp with the point moved x places to the right
ShiftPoint(ip, fp, x) ==
    IF x >= 0
    THEN IF x <= Len(fp)
         THEN [ip |-> ip \o SubSeq(fp, 1, x), fp |-> SubSeq(fp, x + 1, Len(fp))]
         ELSE [ip |-> ip \o fp \o Zeros(x - Len(fp)), fp |-> <<>>]
    ELSE IF -x <= Len(ip)
         THEN [ip |-> SubSeq(ip, 1, Len(ip) + x),
               fp |-> SubSeq(ip, Len(ip) + x + 1, Len(ip)) \o fp]
         ELSE [ip |-> <<>>, fp |-> Zeros(-x - Len(ip)) \o ip \o fp]

\* the digits of a natural number, none for 0
RECURSIVE NatDigits(_)
NatDigits(n) == IF n = 0 THEN <<>> ELSE Append(NatDigits(n \div 10), n % 10)

Reverse(d) == [i \in 1..Len(d) |-> d[Len(d) + 1 - i]]

\* d * k + c for naturals c < k <= 2^26 and a digit run d written from its
\* last digit to its first: the Len(d) last digits of the result, written
\* the same way, and what is carried beyond them; the run taken by halves
RECURSIVE MulAdd(_, _, _)
MulAdd(d, k, c) ==
    IF d = <<>> THEN [digits |-> <<>>, carry |-> c]
    ELSE IF Len(d) = 1
    THEN [digits |-> <<(d[1] * k + c) % 10>>, carry |-> (d[1] * k + c) \div 10]
    ELSE LET h  == Len(d) \div 2
             lo == MulAdd(SubSeq(d, 1, h), k, c)
             hi == MulAdd(SubSeq(d, h + 1, Len(d)), k, lo.carry)
         IN  [digits |-> lo.digits \o hi.digits, carry |-> hi.carry]

\* d * k
MulSmall(d, k) ==
    LET p == MulAdd(Reverse(d), k, 0)
    IN  NatDigits(p.carry) \o Reverse(p.digits)

\* (r * 10^Len(d) + d) divided by k, for naturals r < k <= 2^26: the
\* Len(d) digits of the quotient and the remainder
RECURSIVE DivRem(_, _, _)
DivRem(d, k, r) ==
    IF d = <<>> THEN [q |-> <<>>, r |-> r]
    ELSE IF Len(d) = 1
    THEN [q |-> <<(10 * r + d[1]) \div k>>, r |-> (10 * r + d[1]) % k]
    ELSE LET h  == Len(d) \div 2
             hi == DivRem(SubSeq(d, 1, h), k, r)
             lo == DivRem(SubSeq(d, h + 1, Len(d)), k, hi.r)
         IN  [q |-> hi.q \o lo.q, r |-> lo.r]

\* floor(d / k), and whether a remainder was cut off
DivSmall(d, k) ==
    LET x == DivRem(d, k, 0) IN [q |-> DropLeadingZeros(x.q), cut |-> x.r # 0]

\* d * 2^n
RECURSIVE MulPow2(_, _)
MulPow2(d, n) ==
    IF d = <<>> THEN <<>>
    ELSE IF n <= 26 THEN MulSmall(d, 2^n)
    ELSE MulPow2(MulPow2(d, n \div 2), n - n \div 2)

\* d * 5^n
RECURSIVE MulPow5(_, _)
MulPow5(d, n) ==
    IF d = <<>> THEN <<>>
    ELSE IF n <= 11 THEN MulSmall(d, 5^n)
    ELSE MulPow5(MulPow5(d, n \div 2), n - n \div 2)

\* floor(d / 2^n), and whether a remainder was cut off
RECURSIVE DivPow2(_, _)
DivPow2(d, n) ==
    IF d = <<>> THEN [q |-> <<>>, cut |-> FALSE]
    ELSE IF n <= 26 THEN DivSmall(d, 2^n)
    ELSE LET a == DivPow2(d, n \div 2)
             b == DivPow2(a.q, n - n \div 2)
         IN  [q |-> b.q, cut |-> a.cut \/ b.cut]

RECURSIVE FloorLog2(_)
FloorLog2(n) == IF n < 2 THEN 0 ELSE 1 + FloorLog2(n \div 2)

\* the number of binary digits of the natural d: of a long run, those of
\* its quotient by a 2^k below 10^(Len(d) - 8), and k
BitLength(d) ==
    LET k == ((Len(d) - 8) * 3322) \div 1000
    IN  IF d = <<>> THEN 0
        ELSE IF Len(d) <= 8 THEN FloorLog2(Natural(d)) + 1
        ELSE k + FloorLog2(Natural(DivPow2(d, k).q)) + 1

\* a digit run without its last n digits, and its last n digits
ButLast(d, n) == IF Len(d) > n THEN SubSeq(d, 1, Len(d) - n) ELSE <<>>

Last(d, n) == IF Len(d) > n THEN SubSeq(d, Len(d) - n + 1, Len(d)) ELSE d

\* floor(v * 2^s) for the value v of the digits d with the point before the
\* last n of them, and whether something non-zero was cut off
TimesPow2(d, n, s) ==
    LET p == MulPow2(d, s)
        x == DivPow2(ButLast(d, n), -s)
    IN  IF s >= 0
        THEN [q |-> ButLast(p, n), cut |-> NotZero(Last(p, n))]
        ELSE [q |-> x.q, cut |-> x.cut \/ NotZero(Last(d, n))]

\* a digit run plus one
Increment(d) ==
    IF \A i \in 1..Len(d) : d[i] = 9 THEN <<1>> \o Zeros(Len(d))
    ELSE [i \in 1..Len(d) |->
            IF \E l \in (i + 1)..Len(d) : d[l] # 9 THEN d[i]
            ELSE IF d[i] = 9 THEN 0 ELSE d[i] + 1]

IsOdd(d) == d # <<>> /\ d[Len(d)] % 2 = 1

\* 2^53, one more than the largest 53 binary digits
TwoTo53 == <<9, 0, 0, 7, 1, 9, 9, 2, 5, 4, 7, 4, 0, 9, 9, 2>>

\* the place of the leading binary digit of the value d / 10^n, from a
\* first guess `est` that is never above it and less than four below
LeadingBit(d, n) ==
    LET est == ((Len(d) - n - 1) * 3322) \div 1000
    IN  BitLength(TimesPow2(d, n, 52 - est).q) - 1 - (52 - est)

\* the float nearest to ip.fp, given the place b of the value's leading
\* binary digit, the step 2^e between the floats around the value and the
\* value in half steps t: what lies at or above the half goes up, exactly
\* half to the even multiple; beyond the largest float the result is an
\* infinity
RoundedFloat(neg, ip, fp, b, e, t) ==
    LET m0 == DivSmall(t.q, 2).q
        m  == IF IsOdd(t.q) /\ (t.cut \/ IsOdd(m0)) THEN Increment(m0) ELSE m0
        s  == ShiftPoint(MulPow5(m, -e), <<>>, e)
    IN  IF b > 1023 THEN Inf(neg)
        ELSE IF ~IsOdd(t.q) /\ ~t.cut THEN Finite(neg, ip, fp)
        ELSE IF b = 1023 /\ m = TwoTo53 THEN Inf(neg)
        ELSE IF m = <<>> THEN Finite(neg, <<>>, <<>>)
        ELSE IF e >= 0 THEN Finite(neg, MulPow2(m, e), <<>>)
        ELSE Finite(neg, DropLeadingZeros(s.ip), DropTrailingZeros(s.fp))

\* the float nearest to the value d / 10^Len(fp) whose leading binary digit
\* is at b: the step between the floats around it is 2^(b-52), at least
\* 2^-1074, and the value is cut to a multiple of half a step
NearestAt(neg, ip, fp, d, b) ==
    LET e == IF b - 52 < -1074 THEN -1074 ELSE b - 52
    IN  RoundedFloat(neg, ip, fp, b, e, TimesPow2(d, Len(fp), 1 - e))

\* the float nearest to the value ip.fp, not zero; a natural of at most 15
\* digits is below 2^53 and a float as it is
NearestFloat(neg, ip, fp) ==
    IF fp = <<>> /\ Len(ip) <= 15 THEN Finite(neg, ip, fp)
    ELSE NearestAt(neg, ip, fp, DropLeadingZeros(ip \o fp),
                   LeadingBit(DropLeadingZeros(ip \o fp), Len(fp)))

\* a text with its letters A-Z in lower case: float() compares "inf" and
\* "nan" without regard to the case of the ASCII letters
AsciiLower(s) ==
    [i \in 1..Len(s) |-> IF s[i] \in 65..90 THEN s[i] + 32 ELSE s[i]]

\* the exponent after 'e': an optional sign and a digit part; an exponent
\* of more than nine digits counts as 10^9, beyond what the digits of any
\* text make up for
ExponentVal(ex) ==
    LET d == DropLeadingZeros(DigitValues(OnlyDigits(ex)))
        n == IF Len(d) > 9 THEN 10^9 ELSE Natural(d)
    IN  IF Negative(ex) THEN -n ELSE n

ExponentOk(ex) == DigitPart(Unsigned(ex))

\* the float of sign, mantissa digits ip.fp and decimal exponent x: the
\* value is 0.sig * 10^mexp; from 10^309 on it is an infinity, below
\* 10^-324 a zero, in between the nearest float
Scaled(neg, ip, fp, x) ==
    LET all  == ip \o fp
        sig  == DropLeadingZeros(all)
        mexp == Len(ip) - (Len(all) - Len(sig)) + x
        s    == ShiftPoint(ip, fp, x)
    IN  IF sig = <<>> THEN Finite(neg, <<>>, <<>>)
        ELSE IF mexp > 309 THEN Inf(neg)
        ELSE IF mexp < -323 THEN Finite(neg, <<>>, <<>>)
        ELSE NearestFloat(neg, DropLeadingZeros(s.ip), DropTrailingZeros(s.fp))

ExponentMarks == {Ord("e"), Ord("E")}

\* the literal of integer part ip, fraction fp and exponent ex, each a text
PartsVal(neg, ip, fp, marked, ex) ==
    IF \/ (marked /\ ~ExponentOk(ex))
       \/ (ip # <<>> /\ ~DigitPart(ip)) \/ (fp # <<>> /\ ~DigitPart(fp))
       \/ (ip = <<>> /\ fp = <<>>)
    THEN Err
    ELSE Scaled(neg, DigitValues(OnlyDigits(ip)), DigitValues(OnlyDigits(fp)),
                IF marked THEN ExponentVal(ex) ELSE 0)

\* the literal of mantissa mant: digits and at most one point
MantissaVal(neg, mant, marked, ex) ==
    LET dots == {i \in 1..Len(mant) : mant[i] = Point}
        p    == IF dots = {} THEN Len(mant) + 1 ELSE CHOOSE i \in dots : TRUE
    IN  IF Cardinality(dots) > 1 THEN Err
        ELSE PartsVal(neg, SubSeq(mant, 1, p - 1), SubSeq(mant, p + 1, Len(mant)),
                      marked, ex)

\* the literal without sign: a mantissa and an optional exponent
NumberVal(neg, body) ==
    LET es == {i \in 1..Len(body) : body[i] \in ExponentMarks}
        e  == IF es = {} THEN Len(body) + 1 ELSE CHOOSE i \in es : TRUE
    IN  IF Cardinality(es) > 1 THEN Err
        ELSE MantissaVal(neg, SubSeq(body, 1, e - 1), es # {},
                         SubSeq(body, e + 1, Len(body)))

NanText == Text(<<"n", "a", "n">>)

InfText == Text(<<"i", "n", "f">>)

InfinityText == Text(<<"i", "n", "f", "i", "n", "i", "t", "y">>)

\* float(s): whitespace stripped, an optional sign, then "inf", "infinity" or
\* "nan" in any case, or a decimal literal; anything else raises ValueError
ParseFloat(s) ==
    LET t    == NumberText(s)
        body == Unsigned(t)
    IN  IF AsciiLower(body) = NanText THEN NaN
        ELSE IF AsciiLower(body) \in {InfText, InfinityText} THEN Inf(Negative(t))
        ELSE NumberVal(Negative(t), body)

IsZero(a) == a.k \in {"num", "int"} /\ a.ip = <<>> /\ a.fp = <<>>

\* |a| < |b| for floats that are not nan
MagLess(a, b) ==
    IF a.k = "inf" THEN FALSE
    ELSE IF b.k = "inf" THEN TRUE
    ELSE \/ Len(a.ip) < Len(b.ip)
         \/ Len(a.ip) = Len(b.ip) /\ LexLess(a.ip, b.ip)
         \/ a.ip = b.ip /\ FracLess(a.fp, b.fp)

\* -1, 0, 1: the sign of a float that is not nan (0.0 and -0.0 are equal)
Signum(a) == IF IsZero(a) THEN 0 ELSE IF a.neg THEN -1 ELSE 1

\* a < b: False when either is nan
Less(a, b) ==
    /\ a.k # "nan" /\ b.k # "nan"
    /\ \/ Signum(a) < Signum(b)
       \/ Signum(a) = 1 /\ Signum(b) = 1 /\ MagLess(a, b)
       \/ Signum(a) = -1 /\ Signum(b) = -1 /\ MagLess(b, a)

Gt(a, b) == Less(b, a)

Lt(a, b) == Less(a, b)

\* decimal digits of a natural number
NatText(n) == IF n = 0 THEN <<DigitZero>> ELSE DigitChars(NatDigits(n))

\* the ',' option of the format mini-language: a comma before every group
\* of three digits counted from the right
Grouped(d) ==
    LET total == Len(d) + (Len(d) - 1) \div 3
    IN  [i \in 1..total |->
            LET p == total - i + 1
            IN  IF p % 4 = 0 THEN Comma ELSE d[Len(d) - (p - p \div 4) + 1]]

SignText(neg) == IF neg THEN <<Minus>> ELSE <<>>

\* the digits of |val| rounded to `places` decimals as the 'f' format rounds
\* a float: to the nearest, and to the even digit from exactly halfway
Rounded(val, places) ==
    LET kept == SubSeq(val.fp \o Zeros(places), 1, places)
        rest == SubSeq(val.fp, places + 1, Len(val.fp))
        all  == val.ip \o kept
        up   == /\ rest # <<>>
                /\ \/ rest[1] > 5
                   \/ rest[1] = 5 /\ (Len(rest) > 1 \/ IsOdd(all))
        d    == IF up THEN Increment(all) ELSE all
    IN  [ip |-> IF Len(d) > places THEN SubSeq(d, 1, Len(d) - places) ELSE <<0>>,
         fp |-> Last(d, places)]

\* f"{val:,.2f}"
Format2f(val) ==
    IF val.k = "nan" THEN NanText
    ELSE IF val.k = "inf" THEN SignText(val.neg) \o InfText
    ELSE SignText(val.neg) \o Grouped(DigitChars(Rounded(val, 2).ip)) \o <<Point>>
             \o DigitChars(Rounded(val, 2).fp)

\* f"{volume:,.0f}"
Format0f(val) ==
    IF val.k = "nan" THEN NanText
    ELSE IF val.k = "inf" THEN SignText(val.neg) \o InfText
    ELSE SignText(val.neg) \o Grouped(DigitChars(Rounded(val, 0).ip))

NAText == Text(<<"N", "/", "A">>)

(***************************************************************************)
(* fetch_market_data: one table row of nine cells becomes one frame row.   *)
(***************************************************************************)
\* int(s): whitespace stripped, an optional sign, a digit part of at most
\* 4300 digits (sys.get_int_max_str_digits()); else ValueError
ParseInt(s) ==
    LET t    == NumberText(s)
        body == Unsigned(t)
    IN  IF ~DigitPart(body) \/ Len(OnlyDigits(body)) > 4300 THEN Err
        ELSE Finite(Negative(t), DropLeadingZeros(DigitValues(OnlyDigits(body))), <<>>)

\* str(n) of an int
IntText(n) ==
    IF n.ip = <<>> THEN <<DigitZero>> ELSE SignText(n.neg) \o DigitChars(n.ip)

\* str(volume) of the int parsed from the 9th cell; 0 when the cell is
\* empty, "-" or not an integer
VolumeCell(raw_volume) ==
    LET n == ParseInt(RemoveCommas(raw_volume))
    IN  IF raw_volume # <<>> /\ raw_volume # <<Minus>> /\ n.k # "err"
        THEN IntText(n)
        ELSE <<DigitZero>>

\* the list appended to `data` for a row of at least nine stripped cells
FetchRow(cells) ==
    [SYMBOL |-> Strip(cells[1]), LDCP |-> Strip(cells[2]), OPEN |-> Strip(cells[3]),
     HIGH |-> Strip(cells[4]), LOW |-> Strip(cells[5]), CLOSE |-> Strip(cells[6]),
     VOLUME |-> VolumeCell(Strip(cells[9]))]

\* a frame, or None: [some |-> FALSE] is None, and a frame is never empty
None == [some |-> FALSE, rows |-> <<>>]

Frame(rows) == [some |-> TRUE, rows |-> rows]

HasNineCells(cells) == Len(cells) >= 9

\* the frame built from the table's data rows, None when no row qualifies
FetchFrame(table) ==
    LET kept == SelectSeq(table, HasNineCells)
    IN  IF kept = <<>> THEN None
        ELSE Frame([i \in 1..Len(kept) |-> FetchRow(kept[i])])

(***************************************************************************)
(* is_valid_symbol                                                         *)
(***************************************************************************)
MONTH_CODES ==
    << Text(<<"-","J","A","N">>), Text(<<"-","F","E","B">>), Text(<<"-","M","A","R">>),
       Text(<<"-","A","P","R">>), Text(<<"-","M","A","Y">>), Text(<<"-","J","U","N">>),
       Text(<<"-","J","U","L">>), Text(<<"-","A","U","G">>), Text(<<"-","S","E","P">>),
       Text(<<"-","O","C","T">>), Text(<<"-","N","O","V">>), Text(<<"-","D","E","C">>) >>

\* is_valid_symbol without the month-code test
is_valid_symbol_any_month(symbol, data) == Upper(Strip(symbol)) \in DOMAIN data

is_valid_symbol(symbol, data) ==
    LET canon == Upper(Strip(symbol))
    IN  /\ canon \in DOMAIN data
        /\ ~\E m \in 1..Len(MONTH_CODES) : Contains(canon, MONTH_CODES[m])

(***************************************************************************)
(* Bounds and the inputs drawn within them.                                *)
(***************************************************************************)
\* most rows of today's table
MaxRows == 2

\* most rows of one historical window
MaxWin == 3

AB == Text(<<"A", "B">>)

CD == Text(<<"C", "D">>)

ABDEC == Text(<<"A", "B", "-", "D", "E", "C">>)

\* the symbol sheet and the KMI list the run loaded
Sheet ==
    << [Symbol |-> Text(<<" ", "a", "b", " ">>), Company |-> Text(<<"A", "l", "p", "h", "a">>),
        Sector |-> "Cement"],
       [Symbol |-> CD, Company |-> Text(<<"C", "o", "d", "a">>), Sector |-> "Banks"],
       [Symbol |-> ABDEC, Company |-> Text(<<"A", "l", "p", "h", "a">>),
        Sector |-> "Futures"] >>

KmiSymbols == {AB}

\* nine cells of a table row: symbol, ldcp, open, high, low, close, change,
\* change %, volume
Cells(symbol, ldcp, open, high, low, close, volume) ==
    <<symbol, ldcp, open, high, low, close, Text(<<"0">>), Text(<<"0">>), volume>>

Dash == Text(<<"-">>)

\* 8.0000000000000000001: more digits than a float keeps
EightAndALittle == Text(<<"8", ".">>) \o [i \in 1..18 |-> DigitZero] \o Text(<<"1">>)

\* the fullwidth digit eight, U+FF18
FullwidthEight == <<65304>>

\* AB after an ideographic space, U+3000
WideSpaceAB == <<12288>> \o AB

Vol == Text(<<"1", ",", "2", "0", "0">>)

\* a well-formed row of today's table for `symbol` closing at `close`
Plain(symbol, close) == Cells(symbol, Text(<<"6">>), Text(<<"5">>), Text(<<"9">>), Text(<<"3">>), close, Vol)

\* rows every table may repeat
PlainToday == {Plain(AB, Text(<<"6">>)), Plain(CD, Text(<<"3">>))}

\* rows that differ from a plain row in their close only
CloseToday == {Plain(AB, c) : c \in {Text(<<"3">>), Text(<<"4">>), Text(<<"8">>), Text(<<"9">>)}}

\* rows with an unusual text in some cell, and a row of eight cells
OddToday ==
    {Plain(AB, c) : c \in {Text(<<"8", ".", "5">>), Text(<<"1", ",", "0", "0", "0">>), <<>>,
                           Dash, Text(<<"n", "a", "n">>), Text(<<"1", "e", "1">>),
                           Text(<<"8", ".", "1", "2", "5">>), Text(<<"1", "_", "0">>),
                           Text(<<"-", "0">>), Text(<<"i", "n", "f">>),
                           Text(<<"\t", "8", "\n">>),
                           EightAndALittle, FullwidthEight}}
    \cup {Plain(y, Text(<<"9">>)) : y \in {Text(<<"a", "b">>), Text(<<"A", "B", " ">>),
                                     Text(<<"\t", "A", "B", "\n">>), ABDEC,
                                     Text(<<"a", "b", "-", "d", "e", "c">>), Text(<<"E", "E">>),
                                     WideSpaceAB}}
    \cup {Cells(AB, <<>>, Text(<<"5">>), Text(<<"9">>), Text(<<"3">>), Text(<<"6">>), Vol),
          Cells(AB, Dash, Text(<<"5">>), Text(<<"9">>), Text(<<"3">>), Text(<<"6">>), Vol),
          Cells(AB, Text(<<"6">>), <<>>, Text(<<"9">>), Text(<<"3">>), Text(<<"6">>), Vol),
          Cells(AB, Text(<<"6">>), Dash, Text(<<"9">>), Text(<<"3">>), Text(<<"6">>), Vol),
          Cells(AB, Text(<<"6">>), Text(<<"5">>), Dash, Text(<<"3">>), Text(<<"6">>), Vol),
          Cells(AB, Text(<<"6">>), Text(<<"5">>), Text(<<"9">>), Text(<<"x">>), Text(<<"6">>), Vol),
          Cells(AB, Text(<<"6">>), Text(<<"5">>), Text(<<"9">>), Text(<<"3">>), Text(<<"6">>), Dash),
          Cells(AB, Text(<<"6">>), Text(<<"5">>), Text(<<"9">>), Text(<<"3">>), Text(<<"6">>), Text(<<"1", ".", "5">>)),
          Cells(AB, Text(<<"6">>), Text(<<"5">>), Text(<<"9">>), Text(<<"3">>), Text(<<"6">>),
                Text(<<"1", "_", "0", "0", "0">>)),
          Cells(AB, Text(<<"6">>), Text(<<"5">>), Text(<<"9">>), Text(<<"3">>), Text(<<"6">>),
                FullwidthEight),
          <<AB, Text(<<"6">>), Text(<<"5">>), Text(<<"9">>), Text(<<"3">>), Text(<<"6">>), Text(<<"0">>), Text(<<"0">>)>>}

\* a row of a historical table
Hist(symbol, high, low, close) == Cells(symbol, Text(<<"5">>), Text(<<"5">>), high, low, close, Vol)

PlainHist == {Hist(AB, Text(<<"8">>), Text(<<"4">>), Text(<<"5">>)), Hist(CD, Text(<<"2", "0">>), Text(<<"1">>), Text(<<"2">>))}

OddHist ==
    {Hist(Text(<<"a", "b">>), Text(<<"7">>), Text(<<"2">>), Text(<<"5">>)),
     Hist(AB, <<>>, Text(<<"4">>), Text(<<"5">>)),
     Hist(AB, Text(<<"8">>), <<>>, Text(<<"5">>)),
     Hist(AB, Dash, Text(<<"4">>), Text(<<"5">>)),
     Hist(AB, Text(<<"8">>), Text(<<"x">>), Text(<<"5">>)),
     Hist(AB, Text(<<"n", "a", "n">>), Text(<<"n", "a", "n">>), Text(<<"5">>)),
     Hist(AB, Text(<<"1", "e", "1">>), Text(<<"3", ".", "9", "9", "9">>), Text(<<"5">>)),
     Hist(AB, Text(<<"i", "n", "f">>), Text(<<"-", "i", "n", "f">>), Text(<<"5">>)),
     Hist(AB, Text(<<"1", ",", "0", "0", "0">>), Text(<<"5">>), Text(<<"1", "0", "0">>)),
     Hist(AB, EightAndALittle, FullwidthEight, Text(<<"5">>))}

\* tables of one to n rows, at most one of them odd
Tables(plain, odd, n) ==
    UNION {{t \in [1..len -> plain \cup odd] :
               Cardinality({i \in 1..len : t[i] \in odd}) <= 1} : len \in 1..n}

\* the exchange's table of one day lists a symbol once
OneRowPerSymbol(t) ==
    \A i, j \in 1..Len(t) : i # j => Upper(Strip(t[i][1])) # Upper(Strip(t[j][1]))

TodayTables(plain, odd, n) == {t \in Tables(plain, odd, n) : OneRowPerSymbol(t)}

\* today's frame is never None: main returns at line 550 when the search
\* for a trading day finds no data
CloseFrames == {FetchFrame(t) : t \in TodayTables(PlainToday, CloseToday, MaxRows)}

OddFrames == {FetchFrame(t) : t \in TodayTables(PlainToday, OddToday, MaxRows)} \ {None}

\* a window is None, or the concatenation of the frames fetched for its days
Windows == {None} \cup {FetchFrame(t) : t \in Tables(PlainHist, OddHist, MaxWin)}

SmallWindows == {None, FetchFrame(<<Hist(AB, Text(<<"8">>), Text(<<"4">>), Text(<<"5">>))>>)}

(***************************************************************************)
(* calculate_breakout_stats, one iteration of its loop over today's rows.  *)
(***************************************************************************)
\* company_info.get(...) with the defaults of lines 185-188
CompanyInfo(symbol, data) ==
    IF symbol \in DOMAIN data
    THEN data[symbol]
    ELSE [Company |-> symbol, Sector |-> "N/A", KMI |-> "No"]

\* float(x.replace(',', '')) if x else 0, for today's CLOSE, HIGH, LOW, LDCP, OPEN
TodayField(x) == IF x = <<>> THEN Zero ELSE ParseFloat(RemoveCommas(x))

\* volume_str, f"{volume:,.0f}" of the converted volume; Err when the
\* conversion raises
VolumeStr(x) ==
    LET volume == ParseFloat(RemoveCommas(x))
    IN  IF x = <<>> \/ Strip(x) = <<>> THEN [k |-> "text", v |-> <<DigitZero>>]
        ELSE IF volume.k = "err" THEN Err
        ELSE [k |-> "text", v |-> Format0f(volume)]

\* CoreRaises that overlooks a failure on LOW
CoreRaisesButLow(row) ==
    \/ TodayField(row.CLOSE).k = "err"
    \/ TodayField(row.HIGH).k = "err"
    \/ TodayField(row.LDCP).k = "err"
    \/ VolumeStr(row.VOLUME).k = "err"

\* the try block of lines 198-212 raised: the row is skipped
CoreRaises(row) ==
    \/ TodayField(row.CLOSE).k = "err"
    \/ TodayField(row.HIGH).k = "err"
    \/ TodayField(row.LOW).k = "err"
    \/ TodayField(row.LDCP).k = "err"
    \/ VolumeStr(row.VOLUME).k = "err"

\* the OPEN conversion inside results.append raised (it is under no try)
OpenRaises(row) == TodayField(row.OPEN).k = "err"

\* frame[frame['SYMBOL'].str.upper() == symbol.upper()]
SymbolRows(rows, symbol) ==
    LET Matches(r) == Upper(r.SYMBOL) = Upper(symbol)
    IN  SelectSeq(rows, Matches)

IsFloat(x) == x.k \in {"num", "inf", "nan"}

\* PrevDayField with a conversion that yields "N/A" instead of raising
PrevDayFieldSafe(x) ==
    IF x = <<>> \/ ParseFloat(RemoveCommas(x)).k = "err" THEN NA
    ELSE ParseFloat(RemoveCommas(x))

\* float(x.replace(',', '')) if x else "N/A", for the previous day's HIGH, LOW
PrevDayField(x) == IF x = <<>> THEN NA ELSE ParseFloat(RemoveCommas(x))

\* DailyCompare with >= and <= for > and <
DailyCompareInclusive(close, high, low) ==
    IF close.k # "nan" /\ high.k # "nan" /\ ~Less(close, high) THEN "Daily Breakout"
    ELSE IF close.k # "nan" /\ low.k # "nan" /\ ~Less(low, close) THEN "Daily Breakdown"
    ELSE "Daily Within Range"

DailyCompare(close, high, low) ==
    IF Gt(close, high) THEN "Daily Breakout"
    ELSE IF Lt(close, low) THEN "Daily Breakdown"
    ELSE "Daily Within Range"

\* the try block of lines 220-233 over the converted HIGH and LOW of the
\* previous day's row
DailyOver(close, h, l) ==
    IF h.k = "err"
    THEN [high |-> NA, low |-> NA, status |-> "Daily Data Error"]
    ELSE IF l.k = "err"
    THEN [high |-> h, low |-> NA, status |-> "Daily Data Error"]
    ELSE IF IsFloat(h) /\ IsFloat(l)
    THEN [high |-> h, low |-> l, status |-> DailyCompare(close, h, l)]
    ELSE [high |-> h, low |-> l, status |-> "N/A"]

\* lines 214-233: prev_day_high, prev_day_low and daily_status after the
\* comparison with the previous day ("N/A" where left untouched)
DailyVsPrevDay(symbol, close, prev) ==
    LET m == SymbolRows(prev.rows, symbol)
    IN  IF ~prev.some \/ m = <<>> THEN [high |-> NA, low |-> NA, status |-> "N/A"]
        ELSE DailyOver(close, PrevDayField(m[1].HIGH), PrevDayField(m[1].LOW))

\* lines 275-285: the LDCP comparison
LdcpCompare(close, ldcp) ==
    IF Gt(close, ldcp) THEN "Daily Breakout"
    ELSE IF Lt(close, ldcp) THEN "Daily Breakdown"
    ELSE "Daily Within Range"

\* lines 276-285: a daily_status left at "N/A" is decided against the LDCP
LdcpFallback(status, close, ldcp) ==
    IF status = "N/A" THEN LdcpCompare(close, ldcp) ELSE status

\* daily_status without the fallback of lines 275-285
DailyStatusNoFallback(symbol, close, ldcp, prev) ==
    DailyVsPrevDay(symbol, close, prev).status

\* daily_status as appended
DailyStatus(symbol, close, ldcp, prev) ==
    LdcpFallback(DailyVsPrevDay(symbol, close, prev).status, close, ldcp)

\* PeriodField that yields 0 for every text float() rejects
PeriodFieldZeroOnError(x) ==
    IF x = NanText \/ ParseFloat(RemoveCommas(x)).k = "err" THEN IntZero
    ELSE ParseFloat(RemoveCommas(x))

\* lambda x: float(x.replace(',', '')) if str(x) != 'nan' else 0
PeriodField(x) ==
    IF x = NanText THEN IntZero ELSE ParseFloat(RemoveCommas(x))

\* an entry of a float series: the integer 0 is stored as 0.0
AsFloat(val) == IF val.k = "int" THEN Zero ELSE val

\* Series.max(): an all-integer series keeps its integer type, otherwise the
\* series is float and nan entries are skipped (nan when nothing is left)
SeriesMax(vals) ==
    LET nums == {i \in 1..Len(vals) : vals[i].k # "nan"}
        tops == {i \in nums : \A j \in nums : ~Less(vals[i], vals[j])}
    IN  IF \A i \in 1..Len(vals) : vals[i].k = "int" THEN IntZero
        ELSE IF nums = {} THEN NaN
        ELSE AsFloat(vals[CHOOSE i \in tops : \A j \in tops : i <= j])

\* SeriesMin that takes the largest entry
SeriesMinAsMax(vals) ==
    LET nums == {i \in 1..Len(vals) : vals[i].k # "nan"}
        tops == {i \in nums : \A j \in nums : ~Less(vals[i], vals[j])}
    IN  IF \A i \in 1..Len(vals) : vals[i].k = "int" THEN IntZero
        ELSE IF nums = {} THEN NaN
        ELSE AsFloat(vals[CHOOSE i \in tops : \A j \in tops : i <= j])

\* Series.min()
SeriesMin(vals) ==
    LET nums == {i \in 1..Len(vals) : vals[i].k # "nan"}
        lows == {i \in nums : \A j \in nums : ~Less(vals[j], vals[i])}
    IN  IF \A i \in 1..Len(vals) : vals[i].k = "int" THEN IntZero
        ELSE IF nums = {} THEN NaN
        ELSE AsFloat(vals[CHOOSE i \in lows : \A j \in lows : i <= j])

AnyErr(vals) == \E i \in 1..Len(vals) : vals[i].k = "err"

PeriodStatusText ==
    [Weekly  |-> [Breakout |-> "Weekly Breakout", Breakdown |-> "Weekly Breakdown",
                  Within |-> "Weekly Within Range", Error |-> "Weekly Data Error"],
     Monthly |-> [Breakout |-> "Monthly Breakout", Breakdown |-> "Monthly Breakdown",
                  Within |-> "Monthly Within Range", Error |-> "Monthly Data Error"]]

PeriodCompare(period, close, high, low) ==
    IF Gt(close, high) THEN PeriodStatusText[period].Breakout
    ELSE IF Lt(close, low) THEN PeriodStatusText[period].Breakdown
    ELSE PeriodStatusText[period].Within

\* the try block of a period over the converted HIGH and LOW of its rows
PeriodOver(period, close, highs, lows) ==
    IF AnyErr(highs)
    THEN [high |-> NA, low |-> NA, status |-> PeriodStatusText[period].Error]
    ELSE IF AnyErr(lows)
    THEN [high |-> SeriesMax(highs), low |-> NA,
          status |-> PeriodStatusText[period].Error]
    ELSE [high |-> SeriesMax(highs), low |-> SeriesMin(lows),
          status |-> PeriodCompare(period, close, SeriesMax(highs), SeriesMin(lows))]

\* PeriodStats that reports Within Range when the window has no row of the symbol
PeriodStatsDefaultWithin(period, symbol, close, window) ==
    LET m == SymbolRows(window.rows, symbol)
    IN  IF ~window.some \/ m = <<>>
        THEN [high |-> NA, low |-> NA, status |-> PeriodStatusText[period].Within]
        ELSE PeriodOver(period, close,
                        [i \in 1..Len(m) |-> PeriodField(m[i].HIGH)],
                        [i \in 1..Len(m) |-> PeriodField(m[i].LOW)])

\* lines 235-253 (period = "Weekly") and 255-273 (period = "Monthly"): the
\* HIGH and the LOW of the symbol's rows as the lambdas convert them
PeriodStats(period, symbol, close, window) ==
    LET m == SymbolRows(window.rows, symbol)
    IN  IF ~window.some \/ m = <<>>
        THEN [high |-> NA, low |-> NA, status |-> "N/A"]
        ELSE PeriodOver(period, close,
                        [i \in 1..Len(m) |-> PeriodField(m[i].HIGH)],
                        [i \in 1..Len(m) |-> PeriodField(m[i].LOW)])


\* format_value(val) if isinstance(val, (int, float)) else val: a float is
\* formatted, "N/A" and a numpy integer are stored as they are
Shown(val) ==
    IF IsFloat(val) THEN Format2f(val)
    ELSE IF val.k = "int" THEN <<DigitZero>>
    ELSE NAText

\* the dict appended to results (lines 293-313), from the locals of the
\* iteration
RecordOf(row, info, close, ldcp, d, daily_status, w, mo) ==
    [SYMBOL |-> row.SYMBOL,
     COMPANY |-> info.Company,
     SECTOR |-> info.Sector,
     KMI_COMPLIANT |-> info.KMI,
     VOLUME |-> VolumeStr(row.VOLUME).v,
     LDCP |-> Format2f(ldcp),
     OPEN |-> Format2f(TodayField(row.OPEN)),
     CLOSE |-> Format2f(close),
     HIGH |-> Format2f(TodayField(row.HIGH)),
     LOW |-> Format2f(TodayField(row.LOW)),
     PREV_DAY_HIGH |-> Shown(d.high),
     PREV_DAY_LOW |-> Shown(d.low),
     WEEKLY_HIGH |-> Shown(w.high),
     WEEKLY_LOW |-> Shown(w.low),
     MONTHLY_HIGH |-> Shown(mo.high),
     MONTHLY_LOW |-> Shown(mo.low),
     DAILY_STATUS |-> daily_status,
     WEEKLY_STATUS |-> w.status,
     MONTHLY_STATUS |-> mo.status]

\* the record of one row of today
ResultRecord(row, data, prev_day, prev_week, prev_month) ==
    LET close == TodayField(row.CLOSE)
        ldcp  == TodayField(row.LDCP)
    IN  RecordOf(row, CompanyInfo(row.SYMBOL, data), close, ldcp,
                 DailyVsPrevDay(row.SYMBOL, close, prev_day),
                 DailyStatus(row.SYMBOL, close, ldcp, prev_day),
                 PeriodStats("Weekly", row.SYMBOL, close, prev_week),
                 PeriodStats("Monthly", row.SYMBOL, close, prev_month))


(***************************************************************************)
(* get_symbols_data: the merge loop of lines 54-61.                        *)
(***************************************************************************)
RECURSIVE MergeSymbols(_, _)
MergeSymbols(sheet, kmi_symbols) ==
    IF sheet = <<>> THEN <<>>
    ELSE LET before == MergeSymbols(SubSeq(sheet, 1, Len(sheet) - 1), kmi_symbols)
             row    == sheet[Len(sheet)]
             symbol == Upper(Strip(row.Symbol))
             entry  == [Company |-> row.Company, Sector |-> row.Sector,
                        KMI |-> IF symbol \in kmi_symbols THEN "Yes" ELSE "No"]
         IN  [k \in (DOMAIN before) \cup {symbol} |->
                 IF k = symbol THEN entry ELSE before[k]]

(***************************************************************************)
(* Dates of the Python runtime: datetime keeps year, month and day, and    *)
(* timedelta arithmetic goes through the proleptic Gregorian ordinal       *)
(* (0001-01-01 is day 1 and a Monday).                                     *)
(***************************************************************************)
Date(y, m, d) == [year |-> y, month |-> m, day |-> d]

\* no date: the value of a local that was not assigned
NoDate == Date(0, 0, 0)

IsLeap(y) == y % 4 = 0 /\ (y % 100 # 0 \/ y % 400 = 0)

DAYS_IN_MONTH == <<31, 28, 31, 30, 31, 30, 31, 31, 30, 31, 30, 31>>

DaysInMonth(y, m) == IF m = 2 /\ IsLeap(y) THEN 29 ELSE DAYS_IN_MONTH[m]

\* days of year y before the first of month m
RECURSIVE DaysBeforeMonth(_, _)
DaysBeforeMonth(y, m) ==
    IF m = 1 THEN 0 ELSE DaysBeforeMonth(y, m - 1) + DaysInMonth(y, m - 1)

\* days before January 1st of year y
DaysBeforeYear(y) ==
    (y - 1) * 365 + (y - 1) \div 4 - (y - 1) \div 100 + (y - 1) \div 400

\* date.toordinal()
ToOrdinal(d) == DaysBeforeYear(d.year) + DaysBeforeMonth(d.year, d.month) + d.day

\* date.fromordinal(): cycles of 400, 100, 4 and 1 years, then the month
\* estimated from the day of the year and corrected downwards
FromOrdinal(ordinal) ==
    LET n0    == ordinal - 1
        n400  == n0 \div 146097
        r400  == n0 % 146097
        n100  == r400 \div 36524
        r100  == r400 % 36524
        n4    == r100 \div 1461
        r4    == r100 % 1461
        n1    == r4 \div 365
        n     == r4 % 365
        y     == n400 * 400 + n100 * 100 + n4 * 4 + n1 + 1
        guess == (n + 50) \div 32
        m     == IF DaysBeforeMonth(y, guess) > n THEN guess - 1 ELSE guess
    IN  IF n1 = 4 \/ n100 = 4
        THEN Date(y - 1, 12, 31)
        ELSE Date(y, m, n - DaysBeforeMonth(y, m) + 1)

\* date + timedelta(days=k)
AddDays(d, k) == FromOrdinal(ToOrdinal(d) + k)

\* date.replace(day=1)
FirstOfMonth(d) == [d EXCEPT !.day = 1]

\* d1 <= d2
NotAfter(d1, d2) == ToOrdinal(d1) <= ToOrdinal(d2)

\* date.weekday(): Monday is 0, Sunday is 6
Weekday(d) == (ToOrdinal(d) + 6) % 7

\* the weekend test without Sunday
is_weekend_saturday_only(date) == Weekday(date) = 5

\* lines 78-80
is_weekend(date) == Weekday(date) >= 5

\* digits of n left-padded with zeros to the width w
RECURSIVE ZeroPad(_, _)
ZeroPad(text, w) == IF Len(text) >= w THEN text ELSE ZeroPad(<<DigitZero>> \o text, w)

\* date.strftime('%Y-%m-%d'), line 90: the year is written without padding
StrFTime(d) ==
    NatText(d.year) \o <<Minus>> \o ZeroPad(NatText(d.month), 2)
        \o <<Minus>> \o ZeroPad(NatText(d.day), 2)

\* the positions of the '-' separators of a date text
Hyphens(text) == {i \in 1..Len(text) : text[i] = Minus}

\* datetime.strptime(text, '%Y-%m-%d'), line 559, on the text strftime
\* wrote for a date of a four-digit year
StrPTime(text) ==
    LET h1 == CHOOSE i \in Hyphens(text) : \A j \in Hyphens(text) : i <= j
        h2 == CHOOSE i \in Hyphens(text) : \A j \in Hyphens(text) : i >= j
    IN  Date(DigitsVal(SubSeq(text, 1, h1 - 1)),
             DigitsVal(SubSeq(text, h1 + 1, h2 - 1)),
             DigitsVal(SubSeq(text, h2 + 1, Len(text))))

\* the values of the date variables while main's date resolution is not running
DatesIdle ==
    /\ now = NoDate /\ closed = {} /\ at = "idle"
    /\ date_to_try = NoDate /\ attempts = 0
    /\ today_found = None /\ today_date = <<>>
    /\ target_date = NoDate /\ days_back = 0 /\ prev_day_found = None
    /\ prev_monday = NoDate /\ prev_friday = NoDate
    /\ first_day_prev_month = NoDate /\ last_day_prev_month = NoDate
    /\ current_date = NoDate /\ all_data = <<>>
    /\ prev_week_found = None /\ prev_month_found = None /\ fetched = <<>>

\* the values of the fetch_psx variables while fetch_psx is not running
PsxIdle ==
    /\ retries = 0 /\ delay = 0 /\ attempt = 0
    /\ responses = <<>> /\ sleeps = <<>> /\ df = 0 /\ outcome = "idle"

\* the values of the classification variables while it is not running
StatsIdle ==
    /\ symbols_data = <<>> /\ snapshot = <<>> /\ today_data = <<>>
    /\ prev_day_data = None /\ prev_week_data = None /\ prev_month_data = None
    /\ pc = "idle" /\ idx = 0 /\ results = <<>>


(***************************************************************************)
(* main from the symbol filter on, with calculate_breakout_stats inlined.  *)
(* pc: "filter" before line 553, "classify" inside the loop of line 181,   *)
(* "returned" after the return of line 556, "raised" when an exception     *)
(* left calculate_breakout_stats, "done" after its return.                 *)
(***************************************************************************)
Init ==
    /\ symbols_data = MergeSymbols(Sheet, KmiSymbols)
    /\ \/ /\ snapshot \in {f.rows : f \in OddFrames}
          /\ prev_day_data \in SmallWindows
          /\ prev_week_data \in SmallWindows
          /\ prev_month_data \in SmallWindows
       \/ /\ snapshot \in {f.rows : f \in CloseFrames}
          /\ \E w \in Windows, s \in SmallWindows :
                \/ prev_day_data = w /\ prev_week_data = s /\ prev_month_data = s
                \/ prev_day_data = s /\ prev_week_data = w /\ prev_month_data = s
                \/ prev_day_data = s /\ prev_week_data = s /\ prev_month_data = w
    /\ today_data = snapshot
    /\ pc = "filter"
    /\ idx = 1
    /\ results = <<>>
    /\ DatesIdle
    /\ PsxIdle

\* lines 553-556
FilterSymbols ==
    LET Valid(r) == is_valid_symbol(r.SYMBOL, symbols_data)
        kept     == SelectSeq(snapshot, Valid)
    IN  /\ pc = "filter"
        /\ UNCHANGED <<datevars, psxvars>>
        /\ today_data' = kept
        /\ pc' = IF kept = <<>> THEN "returned" ELSE "classify"
        /\ UNCHANGED <<symbols_data, snapshot, prev_day_data, prev_week_data,
                       prev_month_data, idx, results>>

\* SkipRow without the try: the conversion error leaves the function
SkipRowUncaught ==
    /\ UNCHANGED <<datevars, psxvars>>
    /\ pc = "classify" /\ idx <= Len(today_data)
    /\ CoreRaises(today_data[idx])
    /\ pc' = "raised"
    /\ UNCHANGED <<symbols_data, snapshot, today_data, prev_day_data,
                   prev_week_data, prev_month_data, idx, results>>

\* an iteration that ends in `continue` (line 212)
SkipRow ==
    /\ UNCHANGED <<datevars, psxvars>>
    /\ pc = "classify" /\ idx <= Len(today_data)
    /\ CoreRaises(today_data[idx])
    /\ idx' = idx + 1
    /\ UNCHANGED <<symbols_data, snapshot, today_data, prev_day_data,
                   prev_week_data, prev_month_data, pc, results>>

\* an iteration whose results.append raises (line 300)
RaiseRow ==
    /\ UNCHANGED <<datevars, psxvars>>
    /\ pc = "classify" /\ idx <= Len(today_data)
    /\ ~CoreRaises(today_data[idx]) /\ OpenRaises(today_data[idx])
    /\ pc' = "raised"
    /\ UNCHANGED <<symbols_data, snapshot, today_data, prev_day_data,
                   prev_week_data, prev_month_data, idx, results>>

\* an iteration that appends its record (line 293)
EmitRow ==
    /\ UNCHANGED <<datevars, psxvars>>
    /\ pc = "classify" /\ idx <= Len(today_data)
    /\ ~CoreRaises(today_data[idx]) /\ ~OpenRaises(today_data[idx])
    /\ results' = Append(results, ResultRecord(today_data[idx], symbols_data,
                             prev_day_data, prev_week_data, prev_month_data))
    /\ idx' = idx + 1
    /\ UNCHANGED <<symbols_data, snapshot, today_data, prev_day_data,
                   prev_week_data, prev_month_data, pc>>

\* line 315
ReturnResults ==
    /\ UNCHANGED <<datevars, psxvars>>
    /\ pc = "classify" /\ idx > Len(today_data)
    /\ pc' = "done"
    /\ UNCHANGED <<symbols_data, snapshot, today_data, prev_day_data,
                   prev_week_data, prev_month_data, idx, results>>

Next == FilterSymbols \/ SkipRow \/ RaiseRow \/ EmitRow \/ ReturnResults

Spec == Init /\ [][Next]_vars

(***************************************************************************)
(* Properties.  A step that appends a record is an iteration of the loop   *)
(* on row today_data[idx]; the record is the last of results'.             *)
(***************************************************************************)
Emits == pc = "classify" /\ Len(results') = Len(results) + 1

\* the number a text of the feed stands for
Value(x) == ParseFloat(RemoveCommas(x))

\* today's close of a row, 0 for an empty cell
CloseOf(row) == IF row.CLOSE = <<>> THEN Zero ELSE Value(row.CLOSE)

LdcpOf(row) == IF row.LDCP = <<>> THEN Zero ELSE Value(row.LDCP)

\* positions of the rows of a window that carry the symbol, whatever the case
MatchIdx(window, symbol) ==
    {i \in 1..Len(window.rows) : Upper(window.rows[i].SYMBOL) = Upper(symbol)}

FirstMatch(window, symbol) ==
    window.rows[CHOOSE i \in MatchIdx(window, symbol) :
                    \A j \in MatchIdx(window, symbol) : i <= j]

Found(window, symbol) == window.some /\ MatchIdx(window, symbol) # {}

IsNumber(x) == x # <<>> /\ Value(x).k \in {"num", "inf", "nan"}

\* empty, or a text float() accepts
NoError(x) == x = <<>> \/ Value(x).k # "err"

\* C1: when the previous-day row of the symbol is found and its HIGH and LOW
\* both parse, the daily status is Breakout iff close > prev_high, Breakdown
\* iff close < prev_low and not Breakout, Within Range otherwise; equality
\* with prev_high or prev_low is Within Range.
C1Case(row, rec) ==
    LET prev  == FirstMatch(prev_day_data, row.SYMBOL)
        close == CloseOf(row)
        up    == Gt(close, Value(prev.HIGH))
        down  == Lt(close, Value(prev.LOW)) /\ ~up
    IN  (Found(prev_day_data, row.SYMBOL) /\ IsNumber(prev.HIGH) /\ IsNumber(prev.LOW))
        => /\ rec.DAILY_STATUS = "Daily Breakout" <=> up
           /\ rec.DAILY_STATUS = "Daily Breakdown" <=> down
           /\ rec.DAILY_STATUS = "Daily Within Range" <=> (~up /\ ~down)
           /\ rec.PREV_DAY_HIGH = Format2f(Value(prev.HIGH))
           /\ rec.PREV_DAY_LOW = Format2f(Value(prev.LOW))

C1_DailyAgainstPreviousDay ==
    [][Emits => C1Case(today_data[idx], results'[Len(results')])]_vars

\* a record whose close equals the previous day's high, classified Within Range
C1_Witness ==
    \E k \in 1..Len(results) :
        /\ results[k].PREV_DAY_HIGH # NAText
        /\ results[k].CLOSE = results[k].PREV_DAY_HIGH
        /\ results[k].DAILY_STATUS = "Daily Within Range"

\* the status the LDCP comparison gives
LdcpStatus(row) ==
    IF Gt(CloseOf(row), LdcpOf(row)) THEN "Daily Breakout"
    ELSE IF Lt(CloseOf(row), LdcpOf(row)) THEN "Daily Breakdown"
    ELSE "Daily Within Range"

\* C2 as stated: when no previous-day row is found, or one is found but its
\* HIGH or LOW does not parse, the daily status is the LDCP comparison of
\* today's row.
C2OriginalCase(row, rec) ==
    LET prev == FirstMatch(prev_day_data, row.SYMBOL)
    IN  (~Found(prev_day_data, row.SYMBOL) \/ ~IsNumber(prev.HIGH) \/ ~IsNumber(prev.LOW))
        => rec.DAILY_STATUS = LdcpStatus(row)

C2_Original_FallbackOnAnyParseFailure ==
    [][Emits => C2OriginalCase(today_data[idx], results'[Len(results')])]_vars

\* C2 amended: the LDCP comparison decides the daily status when no
\* previous-day row is found, or when the row found has an empty HIGH or LOW
\* and neither raises; a found row whose HIGH or LOW is a non-empty text that
\* float() rejects gives Daily Data Error and no fallback.
C2Case(row, rec) ==
    LET prev   == FirstMatch(prev_day_data, row.SYMBOL)
        found  == Found(prev_day_data, row.SYMBOL)
        raises == ~NoError(prev.HIGH) \/ ~NoError(prev.LOW)
        empty  == prev.HIGH = <<>> \/ prev.LOW = <<>>
    IN  /\ (~found \/ (~raises /\ empty)) => rec.DAILY_STATUS = LdcpStatus(row)
        /\ (found /\ raises) => rec.DAILY_STATUS = "Daily Data Error"

C2_LdcpFallback ==
    [][Emits => C2Case(today_data[idx], results'[Len(results')])]_vars

\* a record decided by the fallback although a previous-day row was found:
\* its high was empty, its low was read
C2_Witness ==
    \E k \in 1..Len(results) :
        /\ results[k].PREV_DAY_HIGH = NAText
        /\ results[k].PREV_DAY_LOW # NAText
        /\ results[k].DAILY_STATUS = "Daily Breakout"

\* the highs (lows) of the rows of a window that carry the symbol
HighsOf(window, symbol) == {Value(window.rows[i].HIGH) : i \in MatchIdx(window, symbol)}

LowsOf(window, symbol) == {Value(window.rows[i].LOW) : i \in MatchIdx(window, symbol)}

Largest(S) == CHOOSE n \in S : \A o \in S : ~Less(n, o)

Smallest(S) == CHOOSE n \in S : \A o \in S : ~Less(o, n)

AllNumbers(window, symbol) ==
    \A i \in MatchIdx(window, symbol) :
        /\ window.rows[i].HIGH # <<>> /\ Value(window.rows[i].HIGH).k \in {"num", "inf"}
        /\ window.rows[i].LOW # <<>> /\ Value(window.rows[i].LOW).k \in {"num", "inf"}

\* C3: when a window has rows of the symbol (in any case) and their highs
\* and lows are numbers, the period's high is their largest high, its low
\* their smallest low, and the status is Breakout iff close > high,
\* Breakdown iff close < low and not Breakout, Within Range otherwise; rows
\* of other symbols play no part.
C3Case(period, window, row, status, high, low) ==
    LET close == CloseOf(row)
        hi    == Largest(HighsOf(window, row.SYMBOL))
        lo    == Smallest(LowsOf(window, row.SYMBOL))
        up    == Gt(close, hi)
        down  == Lt(close, lo) /\ ~up
    IN  (Found(window, row.SYMBOL) /\ AllNumbers(window, row.SYMBOL))
        => /\ high = Format2f(hi)
           /\ low = Format2f(lo)
           /\ status = PeriodStatusText[period].Breakout <=> up
           /\ status = PeriodStatusText[period].Breakdown <=> down
           /\ status = PeriodStatusText[period].Within <=> (~up /\ ~down)

C3Both(row, rec) ==
    /\ C3Case("Weekly", prev_week_data, row, rec.WEEKLY_STATUS, rec.WEEKLY_HIGH,
              rec.WEEKLY_LOW)
    /\ C3Case("Monthly", prev_month_data, row, rec.MONTHLY_STATUS, rec.MONTHLY_HIGH,
              rec.MONTHLY_LOW)

C3_PeriodExtrema ==
    [][Emits => C3Both(today_data[idx], results'[Len(results')])]_vars

\* a weekly window of three rows, one of another symbol with the largest
\* high, two of the record's symbol, and a weekly breakout over their highs
C3_Witness ==
    /\ prev_week_data.some
    /\ \E k \in 1..Len(results) :
          /\ results[k].WEEKLY_STATUS = "Weekly Breakout"
          /\ Cardinality(MatchIdx(prev_week_data, results[k].SYMBOL)) = 2
          /\ Len(prev_week_data.rows) = 3
          /\ results[k].WEEKLY_HIGH = Text(<<"8", ".", "0", "0">>)
          /\ results[k].WEEKLY_LOW = Text(<<"2", ".", "0", "0">>)

\* C4: when the weekly (monthly) window is absent or has no row of the
\* symbol, the weekly (monthly) status is "N/A" and so are the weekly
\* (monthly) high and low: no fallback decides them.
C4Case(window, row, status, high, low) ==
    ~Found(window, row.SYMBOL) => (status = "N/A" /\ high = NAText /\ low = NAText)

C4Both(row, rec) ==
    /\ C4Case(prev_week_data, row, rec.WEEKLY_STATUS, rec.WEEKLY_HIGH, rec.WEEKLY_LOW)
    /\ C4Case(prev_month_data, row, rec.MONTHLY_STATUS, rec.MONTHLY_HIGH,
              rec.MONTHLY_LOW)

C4_PeriodUnavailable ==
    [][Emits => C4Both(today_data[idx], results'[Len(results')])]_vars

\* a record with a decided daily status whose monthly window holds rows, none
\* of its symbol, and whose weekly window is absent
C4_Witness ==
    /\ prev_month_data.some /\ ~prev_week_data.some
    /\ \E k \in 1..Len(results) :
          /\ MatchIdx(prev_month_data, results[k].SYMBOL) = {}
          /\ results[k].MONTHLY_STATUS = "N/A"
          /\ results[k].WEEKLY_STATUS = "N/A"
          /\ results[k].DAILY_STATUS = "Daily Breakout"

\* a symbol main keeps: its trimmed upper-case form is a key of the metadata
\* and holds none of the twelve month codes
Eligible(symbol) ==
    /\ Upper(Strip(symbol)) \in DOMAIN symbols_data
    /\ \A m \in 1..Len(MONTH_CODES) : ~Contains(Upper(Strip(symbol)), MONTH_CODES[m])

EligibleRow(r) == Eligible(r.SYMBOL)

\* C5: main classifies exactly the rows of today's snapshot whose symbol is
\* a key of the metadata (trimmed, upper-cased) and holds no month code
\* -JAN .. -DEC; no record is ever emitted for another symbol.
C5_OnlyValidSymbols ==
    /\ pc # "filter" => today_data = SelectSeq(snapshot, EligibleRow)
    /\ \A k \in 1..Len(results) : Eligible(results[k].SYMBOL)
    /\ pc = "returned" <=> (pc # "filter" /\ \A i \in 1..Len(snapshot) :
                                                ~EligibleRow(snapshot[i]))

\* the snapshot held a futures symbol that is a key of the metadata; the run
\* is over and its output has a record, none for the futures symbol
C5_Witness ==
    /\ pc = "done"
    /\ \E i \in 1..Len(snapshot) :
          /\ snapshot[i].SYMBOL \in DOMAIN symbols_data
          /\ Contains(snapshot[i].SYMBOL, Text(<<"-", "D", "E", "C">>))
    /\ results # <<>>
    /\ \A k \in 1..Len(results) : ~Contains(results[k].SYMBOL, Text(<<"-", "D", "E", "C">>))

\* CLOSE, HIGH, LOW, LDCP and VOLUME of a row of today all convert
CoreParses(row) ==
    /\ NoError(row.CLOSE) /\ NoError(row.HIGH) /\ NoError(row.LOW) /\ NoError(row.LDCP)
    /\ Strip(row.VOLUME) = <<>> \/ Value(row.VOLUME).k # "err"

RecordsOf(symbol) == {k \in 1..Len(results) : results[k].SYMBOL = symbol}

\* C6 as stated: once the output is returned it holds exactly one record for
\* every symbol of the snapshot that is a metadata key without a month code,
\* whatever its numeric fields hold.
C6_Original_OneRecordWhateverTheFields ==
    pc = "done" =>
        \A i \in 1..Len(snapshot) :
            EligibleRow(snapshot[i]) => Cardinality(RecordsOf(snapshot[i].SYMBOL)) = 1

\* C6 amended: the returned output holds, for every eligible symbol of the
\* snapshot, exactly one record when the row's CLOSE, HIGH, LOW, LDCP and
\* VOLUME all convert and none when one does not; the call returns unless a
\* row whose five fields convert has an OPEN that does not, and then it
\* raises at that row and returns no output.
C6_OneRecordPerParsableRow ==
    /\ pc = "done" =>
          \A i \in 1..Len(snapshot) :
              EligibleRow(snapshot[i]) =>
                  /\ Cardinality(RecordsOf(snapshot[i].SYMBOL))
                        = IF CoreParses(snapshot[i]) THEN 1 ELSE 0
                  /\ CoreParses(snapshot[i]) => NoError(snapshot[i].OPEN)
    /\ pc = "raised" =>
          /\ EligibleRow(today_data[idx])
          /\ CoreParses(today_data[idx])
          /\ ~NoError(today_data[idx].OPEN)

\* the output is returned; one eligible row had a field that does not
\* convert and has no record, another converts and has its one record
C6_Witness ==
    /\ pc = "done"
    /\ \E i, j \in 1..Len(snapshot) :
          /\ EligibleRow(snapshot[i]) /\ ~CoreParses(snapshot[i])
          /\ RecordsOf(snapshot[i].SYMBOL) = {}
          /\ EligibleRow(snapshot[j]) /\ CoreParses(snapshot[j])
          /\ Cardinality(RecordsOf(snapshot[j].SYMBOL)) = 1

\* C7: calculate_breakout_stats never raises because of one row's data:
\* whatever CLOSE, HIGH, LOW, LDCP, VOLUME or OPEN of a row of today and the
\* rows of the windows hold, the call returns.
C7_NeverRaises == pc # "raised"

\* the rows the loop has gone through
Seen == SubSeq(today_data, 1, IF pc = "done" THEN Len(today_data) ELSE idx - 1)

\* the records of the rows gone through, had the rows with a failing field
\* not been in the snapshot
RecordsWithoutFailingRows ==
    LET kept == SelectSeq(Seen, CoreParses)
    IN  [k \in 1..Len(kept) |->
            ResultRecord(kept[k], symbols_data, prev_day_data, prev_week_data,
                         prev_month_data)]

\* C8: a row of today whose CLOSE, HIGH, LOW, LDCP or VOLUME does not
\* convert is passed over: the iteration appends nothing and the loop goes on
\* to the next row, and the records are those of a snapshot without that row.
C8SkipCase ==
    (pc = "classify" /\ idx <= Len(today_data) /\ ~CoreParses(today_data[idx]))
    => (results' = results /\ pc' = "classify" /\ idx' = idx + 1)

C8NoTrace == pc \in {"classify", "done", "raised"} => results = RecordsWithoutFailingRows

C8_FailingRowSkipped == [][C8SkipCase]_vars /\ []C8NoTrace

\* the output is returned after a row with a failing field was passed over
\* and the row after it got its record
C8_Witness ==
    /\ pc = "done"
    /\ Len(today_data) = 2
    /\ ~CoreParses(today_data[1])
    /\ Len(results) = 1
    /\ results[1].SYMBOL = today_data[2].SYMBOL

\* an unparseable text counted as 0
ZeroIfUnparseable(x) == IF Value(x).k \in {"num", "inf"} THEN Value(x) ELSE Zero

\* C9 as stated: with a matching row in the window, an unparseable HIGH or
\* LOW counts as 0 in the max/min and the status is Breakout, Breakdown or
\* Within Range over those extrema, never an error.
C9OriginalCase(period, window, row, status) ==
    LET ids == MatchIdx(window, row.SYMBOL)
        hi  == Largest({ZeroIfUnparseable(window.rows[i].HIGH) : i \in ids})
        lo  == Smallest({ZeroIfUnparseable(window.rows[i].LOW) : i \in ids})
    IN  Found(window, row.SYMBOL) => status = PeriodCompare(period, CloseOf(row), hi, lo)

C9OriginalBoth(row, rec) ==
    /\ C9OriginalCase("Weekly", prev_week_data, row, rec.WEEKLY_STATUS)
    /\ C9OriginalCase("Monthly", prev_month_data, row, rec.MONTHLY_STATUS)

C9_Original_UnparseableCountsAsZero ==
    [][Emits => C9OriginalBoth(today_data[idx], results'[Len(results')])]_vars

NanOrNumber(x) == x = NanText \/ Value(x).k \in {"num", "inf"}

\* a text float() rejects, the text 'nan' apart
Rejected(x) == x # NanText /\ Value(x).k = "err"

\* C9 amended: a matching row whose HIGH or LOW is the text 'nan' counts as
\* 0 in the max/min and the status is Breakout, Breakdown or Within Range
\* over those extrema; a matching row whose HIGH or LOW is any other text
\* float() rejects (the empty text too) makes the period's status Data
\* Error, never "N/A".
C9Case(period, window, row, status) ==
    LET ids   == MatchIdx(window, row.SYMBOL)
        clean == \A i \in ids : /\ NanOrNumber(window.rows[i].HIGH)
                                /\ NanOrNumber(window.rows[i].LOW)
        bad   == \E i \in ids : \/ Rejected(window.rows[i].HIGH)
                                \/ Rejected(window.rows[i].LOW)
        hi    == Largest({ZeroIfUnparseable(window.rows[i].HIGH) : i \in ids})
        lo    == Smallest({ZeroIfUnparseable(window.rows[i].LOW) : i \in ids})
        up    == Gt(CloseOf(row), hi)
        down  == Lt(CloseOf(row), lo) /\ ~up
    IN  Found(window, row.SYMBOL) =>
            /\ clean => /\ status = PeriodStatusText[period].Breakout <=> up
                        /\ status = PeriodStatusText[period].Breakdown <=> down
                        /\ status = PeriodStatusText[period].Within <=> (~up /\ ~down)
            /\ bad => status = PeriodStatusText[period].Error

C9Both(row, rec) ==
    /\ C9Case("Weekly", prev_week_data, row, rec.WEEKLY_STATUS)
    /\ C9Case("Monthly", prev_month_data, row, rec.MONTHLY_STATUS)

C9_NanIsZeroOtherTextIsError ==
    [][Emits => C9Both(today_data[idx], results'[Len(results')])]_vars

\* a monthly window with a 'nan' row and a numeric row of the symbol: the
\* low is 0, the high the numeric row's, the status decided over them
C9_Witness ==
    /\ prev_month_data.some
    /\ \E i \in 1..Len(prev_month_data.rows) : prev_month_data.rows[i].LOW = NanText
    /\ \E k \in 1..Len(results) :
          /\ results[k].MONTHLY_LOW = Text(<<"0", ".", "0", "0">>)
          /\ results[k].MONTHLY_HIGH = Text(<<"8", ".", "0", "0">>)
          /\ results[k].MONTHLY_STATUS = "Monthly Breakout"

\* a price of at most two decimals in hundredths
Hundredths(val) ==
    (IF val.neg THEN -1 ELSE 1)
        * Natural(val.ip \o SubSeq(val.fp \o Zeros(2), 1, 2))

\* the circuit-breaker status of the specification: limit = max(1, 7.5 % of
\* the previous close), in hundredths scaled by 1000
CircuitBreaker(row) ==
    LET prev   == FirstMatch(prev_day_data, row.SYMBOL)
        change == Hundredths(CloseOf(row)) - Hundredths(Value(prev.CLOSE))
        limit  == IF Hundredths(Value(prev.CLOSE)) * 75 > 100000
                  THEN Hundredths(Value(prev.CLOSE)) * 75 ELSE 100000
    IN  IF Found(prev_day_data, row.SYMBOL) /\ Value(prev.CLOSE).k = "num"
           /\ CloseOf(row).k = "num"
        THEN IF change * 1000 > limit THEN "Upper Circuit Breaker"
             ELSE IF change * 1000 < -limit THEN "Lower Circuit Breaker"
             ELSE "N/A"
        ELSE "N/A"

\* C10: every record carries a circuit_breaker_status: with a previous-day
\* row of valid close, Upper when close - prev_close > limit, Lower when it
\* is < -limit, unavailable otherwise.
C10Case(row, rec) ==
    /\ "CIRCUIT_BREAKER_STATUS" \in DOMAIN rec
    /\ rec["CIRCUIT_BREAKER_STATUS"] = CircuitBreaker(row)

C10_CircuitBreakerStatus ==
    [][Emits => C10Case(today_data[idx], results'[Len(results')])]_vars

\* the metadata the specification gives a record: the entry stored under the
\* trimmed, upper-cased symbol, the defaults only when there is none
CanonicalInfo(symbol) ==
    IF Upper(Strip(symbol)) \in DOMAIN symbols_data
    THEN symbols_data[Upper(Strip(symbol))]
    ELSE [Company |-> symbol, Sector |-> "N/A", KMI |-> "No"]

\* C11: every record carries the company, sector and KMI flag stored in the
\* metadata under the canonical form of its symbol, so a symbol that
\* is_valid_symbol accepts never shows the defaults.
C11Case(row, rec) ==
    /\ rec.COMPANY = CanonicalInfo(row.SYMBOL).Company
    /\ rec.SECTOR = CanonicalInfo(row.SYMBOL).Sector
    /\ rec.KMI_COMPLIANT = CanonicalInfo(row.SYMBOL).KMI

C11_MetadataOfCanonicalSymbol ==
    [][Emits => C11Case(today_data[idx], results'[Len(results')])]_vars

(***************************************************************************)
(* Date resolution: main, lines 528-576, with get_previous_week_data and   *)
(* get_previous_month_data.  The rows of a frame are those of the          *)
(* classification above; here a frame is identified by the dates it was    *)
(* scraped for, one row per date.                                          *)
(* at: "today" in the loop of line 533, "filter" before line 553,          *)
(* "prev_day" in the loop of line 564, "week" and "month" at the calls of  *)
(* lines 575 and 576, "week_loop" and "month_loop" in the loops of lines   *)
(* 141 and 165, "stats" before line 580, "saved" after line 583,           *)
(* "raised" when an exception of line 580 left main, "returned" after the  *)
(* return of line 550 or 556.                                              *)
(***************************************************************************)
MAX_DAYS_BACK == 5

\* fetch_market_data, lines 87-129, for a date: (None, None) when the page
\* has no data rows for it, else the frame and the date text
FetchDay(date, no_data) ==
    IF ToOrdinal(date) \in no_data
    THEN [data |-> None, date_str |-> <<>>]
    ELSE [data |-> Frame(<<StrFTime(date)>>), date_str |-> StrFTime(date)]

\* pd.concat of a non-empty list of frames
RECURSIVE Concat(_)
Concat(frames) ==
    IF Len(frames) = 1 THEN frames[1]
    ELSE Frame(Concat(SubSeq(frames, 1, Len(frames) - 1)).rows
                   \o frames[Len(frames)].rows)

Call(caller, date) == [caller |-> caller, date |-> date]

\* the loop condition of line 533 with `<=`
SearchGoesOnOneMore(tried, data) == tried <= MAX_DAYS_BACK /\ ~data.some

\* the loop condition of line 533
SearchGoesOn(tried, data) == tried < MAX_DAYS_BACK /\ ~data.some

\* one iteration of the loop of lines 533-546
TryToday ==
    /\ at = "today" /\ SearchGoesOn(attempts, today_found)
    /\ IF ~is_weekend(date_to_try)
       THEN LET r == FetchDay(date_to_try, closed)
            IN  /\ fetched' = Append(fetched, Call("today", date_to_try))
                /\ today_found' = r.data
                /\ today_date' = r.date_str
                /\ IF r.data.some
                   THEN UNCHANGED <<date_to_try, attempts>>
                   ELSE /\ date_to_try' = AddDays(date_to_try, -1)
                        /\ attempts' = attempts + 1
       ELSE /\ date_to_try' = AddDays(date_to_try, -1)
            /\ attempts' = attempts + 1
            /\ UNCHANGED <<fetched, today_found, today_date>>
    /\ UNCHANGED <<now, closed, at, target_date, days_back, prev_day_found,
                   prev_monday, prev_friday, first_day_prev_month,
                   last_day_prev_month, current_date, all_data,
                   prev_week_found, prev_month_found>>
    /\ UNCHANGED <<statsvars, psxvars>>

\* the exit of the loop and the test of lines 548-550
EndTodaySearch ==
    /\ at = "today" /\ ~SearchGoesOn(attempts, today_found)
    /\ at' = IF today_found.some THEN "filter" ELSE "returned"
    /\ UNCHANGED <<now, closed, date_to_try, attempts, today_found, today_date,
                   target_date, days_back, prev_day_found, prev_monday,
                   prev_friday, first_day_prev_month, last_day_prev_month,
                   current_date, all_data, prev_week_found, prev_month_found,
                   fetched>>
    /\ UNCHANGED <<statsvars, psxvars>>

\* lines 553-562: the rows of valid symbol are kept; with none left main
\* returns, else the target date is parsed from the date text
FilterToday ==
    LET Valid(r) == is_valid_symbol(r.SYMBOL, symbols_data)
        kept     == SelectSeq(snapshot, Valid)
    IN  /\ at = "filter"
        /\ today_data' = kept
        /\ IF kept # <<>>
           THEN /\ target_date' = StrPTime(today_date)
                /\ prev_day_found' = None
                /\ days_back' = 1
                /\ at' = "prev_day"
           ELSE /\ at' = "returned"
                /\ UNCHANGED <<target_date, prev_day_found, days_back>>
        /\ UNCHANGED <<now, closed, date_to_try, attempts, today_found,
                       today_date, prev_monday, prev_friday,
                       first_day_prev_month, last_day_prev_month, current_date,
                       all_data, prev_week_found, prev_month_found, fetched>>
        /\ UNCHANGED <<symbols_data, snapshot, prev_day_data, prev_week_data,
                       prev_month_data, pc, idx, results>>
        /\ UNCHANGED psxvars

\* line 565
PrevDayDate(target, back) == AddDays(target, -back)

\* one iteration of the loop of lines 564-572
TryPrevDay ==
    /\ at = "prev_day"
    /\ days_back <= MAX_DAYS_BACK /\ ~prev_day_found.some
    /\ LET prev_day_date == PrevDayDate(target_date, days_back)
       IN  IF ~is_weekend(prev_day_date)
           THEN /\ prev_day_found' = FetchDay(prev_day_date, closed).data
                /\ fetched' = Append(fetched, Call("prev_day", prev_day_date))
           ELSE UNCHANGED <<prev_day_found, fetched>>
    /\ days_back' = days_back + 1
    /\ UNCHANGED <<now, closed, at, date_to_try, attempts, today_found,
                   today_date, target_date, prev_monday, prev_friday,
                   first_day_prev_month, last_day_prev_month, current_date,
                   all_data, prev_week_found, prev_month_found>>
    /\ UNCHANGED <<statsvars, psxvars>>

\* the exit of the loop of line 564
EndPrevDaySearch ==
    /\ at = "prev_day"
    /\ ~(days_back <= MAX_DAYS_BACK /\ ~prev_day_found.some)
    /\ at' = "week"
    /\ UNCHANGED <<now, closed, date_to_try, attempts, today_found, today_date,
                   target_date, days_back, prev_day_found, prev_monday,
                   prev_friday, first_day_prev_month, last_day_prev_month,
                   current_date, all_data, prev_week_found, prev_month_found,
                   fetched>>
    /\ UNCHANGED <<statsvars, psxvars>>

\* the Monday of line 134 without the weekday of the target
PrevMondaySevenBack(target) == AddDays(target, -7)

\* line 134
PrevMonday(target) == AddDays(target, -(Weekday(target) + 7))

\* line 135
PrevFriday(monday) == AddDays(monday, 4)

\* lines 134-140
StartWeek ==
    /\ at = "week"
    /\ prev_monday' = PrevMonday(target_date)
    /\ prev_friday' = PrevFriday(prev_monday')
    /\ all_data' = <<>>
    /\ current_date' = prev_monday'
    /\ at' = "week_loop"
    /\ UNCHANGED <<now, closed, date_to_try, attempts, today_found, today_date,
                   target_date, days_back, prev_day_found,
                   first_day_prev_month, last_day_prev_month,
                   prev_week_found, prev_month_found, fetched>>
    /\ UNCHANGED <<statsvars, psxvars>>

\* one iteration of the loop of lines 141-146
WeekStep ==
    /\ at = "week_loop" /\ NotAfter(current_date, prev_friday)
    /\ IF ~is_weekend(current_date)
       THEN LET data == FetchDay(current_date, closed).data
            IN  /\ fetched' = Append(fetched, Call("week", current_date))
                /\ all_data' = IF data.some THEN Append(all_data, data)
                               ELSE all_data
       ELSE UNCHANGED <<fetched, all_data>>
    /\ current_date' = AddDays(current_date, 1)
    /\ UNCHANGED <<now, closed, at, date_to_try, attempts, today_found,
                   today_date, target_date, days_back, prev_day_found,
                   prev_monday, prev_friday, first_day_prev_month,
                   last_day_prev_month, prev_week_found, prev_month_found>>
    /\ UNCHANGED <<statsvars, psxvars>>

\* lines 148-150 and the assignment of line 575
EndWeek ==
    /\ at = "week_loop" /\ ~NotAfter(current_date, prev_friday)
    /\ prev_week_found' = IF all_data # <<>> THEN Concat(all_data) ELSE None
    /\ at' = "month"
    /\ UNCHANGED <<now, closed, date_to_try, attempts, today_found, today_date,
                   target_date, days_back, prev_day_found, prev_monday,
                   prev_friday, first_day_prev_month, last_day_prev_month,
                   current_date, all_data, prev_month_found, fetched>>
    /\ UNCHANGED <<statsvars, psxvars>>

\* the last day of line 159 without replace(day=1)
LastDayPrevMonthFromTarget(target) == AddDays(target, -1)

\* line 159
LastDayPrevMonth(target) == AddDays(FirstOfMonth(target), -1)

\* lines 155-156
FirstDayPrevMonth(target) == FirstOfMonth(AddDays(FirstOfMonth(target), -1))

\* lines 155-164
StartMonth ==
    /\ at = "month"
    /\ first_day_prev_month' = FirstDayPrevMonth(target_date)
    /\ last_day_prev_month' = LastDayPrevMonth(target_date)
    /\ all_data' = <<>>
    /\ current_date' = first_day_prev_month'
    /\ at' = "month_loop"
    /\ UNCHANGED <<now, closed, date_to_try, attempts, today_found, today_date,
                   target_date, days_back, prev_day_found, prev_monday,
                   prev_friday, prev_week_found, prev_month_found, fetched>>
    /\ UNCHANGED <<statsvars, psxvars>>

\* one iteration of the loop of lines 165-170
MonthStep ==
    /\ at = "month_loop" /\ NotAfter(current_date, last_day_prev_month)
    /\ IF ~is_weekend(current_date)
       THEN LET data == FetchDay(current_date, closed).data
            IN  /\ fetched' = Append(fetched, Call("month", current_date))
                /\ all_data' = IF data.some THEN Append(all_data, data)
                               ELSE all_data
       ELSE UNCHANGED <<fetched, all_data>>
    /\ current_date' = AddDays(current_date, 1)
    /\ UNCHANGED <<now, closed, at, date_to_try, attempts, today_found,
                   today_date, target_date, days_back, prev_day_found,
                   prev_monday, prev_friday, first_day_prev_month,
                   last_day_prev_month, prev_week_found, prev_month_found>>
    /\ UNCHANGED <<statsvars, psxvars>>

\* lines 172-174 and the assignment of line 576
EndMonth ==
    /\ at = "month_loop" /\ ~NotAfter(current_date, last_day_prev_month)
    /\ prev_month_found' = IF all_data # <<>> THEN Concat(all_data) ELSE None
    /\ at' = "stats"
    /\ UNCHANGED <<now, closed, date_to_try, attempts, today_found, today_date,
                   target_date, days_back, prev_day_found, prev_monday,
                   prev_friday, first_day_prev_month, last_day_prev_month,
                   current_date, all_data, prev_week_found, fetched>>
    /\ UNCHANGED <<statsvars, psxvars>>

\* calculate_breakout_stats raises: some row passes the parse of lines
\* 198-212 and its OPEN fails at line 300
StatsRaises(rows) ==
    \E i \in 1..Len(rows) : ~CoreRaises(rows[i]) /\ OpenRaises(rows[i])

\* line 580 when the classification raises: the exception leaves main and
\* line 583 is not reached
StatsRaise ==
    /\ at = "stats" /\ StatsRaises(today_data)
    /\ at' = "raised"
    /\ UNCHANGED <<now, closed, date_to_try, attempts, today_found, today_date,
                   target_date, days_back, prev_day_found, prev_monday,
                   prev_friday, first_day_prev_month, last_day_prev_month,
                   current_date, all_data, prev_week_found, prev_month_found,
                   fetched>>
    /\ UNCHANGED <<statsvars, psxvars>>

\* lines 580-584: the classification modelled by Spec returns, then the
\* report is saved
SaveReport ==
    /\ at = "stats" /\ ~StatsRaises(today_data)
    /\ at' = "saved"
    /\ UNCHANGED <<now, closed, date_to_try, attempts, today_found, today_date,
                   target_date, days_back, prev_day_found, prev_monday,
                   prev_friday, first_day_prev_month, last_day_prev_month,
                   current_date, all_data, prev_week_found, prev_month_found,
                   fetched>>
    /\ UNCHANGED <<statsvars, psxvars>>

(***************************************************************************)
(* Inputs of the date resolution.                                          *)
(***************************************************************************)
\* reference dates run from each start to MaxOffset days after it
MaxOffset == 13

\* the clock's week is searched with any of the last MaxClosed + 1 days
\* without data
MaxClosed == 6

\* a year change, the leap February of 2024, the February of 2023 and of
\* 2100, and a 31st after a month of 30 days
WindowStarts ==
    {Date(2023, 12, 25), Date(2024, 3, 4), Date(2023, 2, 27),
     Date(2100, 2, 22), Date(2024, 5, 20)}

RefDates == {AddDays(s, k) : s \in WindowStarts, k \in 0..MaxOffset}

\* the days before `date` that the windows can ask for
Reach(date) == (ToOrdinal(date) - 75)..ToOrdinal(date)

\* every day has data, none has, every second one has
ClosedChoices(date) ==
    {{}, Reach(date), {o \in Reach(date) : o % 2 = 0}}

ClockDates == {AddDays(Date(2024, 1, 1), k) : k \in 0..6}

ClosedBefore(date) ==
    {{ToOrdinal(date) - i : i \in H} : H \in SUBSET (0..MaxClosed)}

\* the two window functions called with any reference date
InitWindows ==
    /\ StatsIdle /\ PsxIdle
    /\ now = NoDate
    /\ target_date \in RefDates
    /\ closed \in ClosedChoices(target_date)
    /\ at = "week"
    /\ date_to_try = NoDate /\ attempts = 0
    /\ today_found = None /\ today_date = <<>>
    /\ days_back = 0 /\ prev_day_found = None
    /\ prev_monday = NoDate /\ prev_friday = NoDate
    /\ first_day_prev_month = NoDate /\ last_day_prev_month = NoDate
    /\ current_date = NoDate /\ all_data = <<>>
    /\ prev_week_found = None /\ prev_month_found = None /\ fetched = <<>>

NextWindows ==
    StartWeek \/ WeekStep \/ EndWeek \/ StartMonth \/ MonthStep \/ EndMonth

SpecWindows == InitWindows /\ [][NextWindows]_vars

\* the rows of the table the exchange shows for a day with data: a plain
\* row, a row of a symbol main does not keep, a row whose OPEN is "-" and a
\* row whose LOW does not parse
MainSnapshots ==
    {FetchFrame(<<r>>).rows :
        r \in {Plain(AB, Text(<<"6">>)), Plain(Text(<<"E", "E">>), Text(<<"9">>)),
               Cells(AB, Text(<<"6">>), Dash, Text(<<"9">>), Text(<<"3">>), Text(<<"6">>), Vol),
               Cells(AB, Text(<<"6">>), Text(<<"5">>), Text(<<"9">>), Text(<<"x">>), Text(<<"6">>), Vol)}}

\* main at line 528
InitMain ==
    /\ PsxIdle
    /\ symbols_data = MergeSymbols(Sheet, KmiSymbols)
    /\ snapshot \in MainSnapshots
    /\ today_data = <<>>
    /\ prev_day_data = None /\ prev_week_data = None /\ prev_month_data = None
    /\ pc = "idle" /\ idx = 0 /\ results = <<>>
    /\ now \in ClockDates
    /\ closed \in ClosedBefore(now)
    /\ at = "today"
    /\ date_to_try = now /\ attempts = 0
    /\ today_found = None /\ today_date = <<>>
    /\ target_date = NoDate /\ days_back = 0 /\ prev_day_found = None
    /\ prev_monday = NoDate /\ prev_friday = NoDate
    /\ first_day_prev_month = NoDate /\ last_day_prev_month = NoDate
    /\ current_date = NoDate /\ all_data = <<>>
    /\ prev_week_found = None /\ prev_month_found = None /\ fetched = <<>>

NextMain ==
    \/ TryToday \/ EndTodaySearch \/ FilterToday \/ TryPrevDay
    \/ EndPrevDaySearch \/ StartWeek \/ WeekStep \/ EndWeek \/ StartMonth
    \/ MonthStep \/ EndMonth \/ StatsRaise \/ SaveReport

SpecMain == InitMain /\ [][NextMain]_vars

(***************************************************************************)
(* Properties of the date resolution.                                      *)
(***************************************************************************)
\* the dates handed to fetch_market_data by one caller, in order
RECURSIVE DatesOf(_, _)
DatesOf(calls, caller) ==
    IF calls = <<>> THEN <<>>
    ELSE DatesOf(SubSeq(calls, 1, Len(calls) - 1), caller)
             \o (IF calls[Len(calls)].caller = caller
                 THEN <<calls[Len(calls)].date>> ELSE <<>>)

Range(seq) == {seq[i] : i \in 1..Len(seq)}

\* get_previous_week_data has computed its span / has returned
WeekSpanKnown ==
    at \in {"week_loop", "month", "month_loop", "stats", "saved", "raised"}

WeekReturned == at \in {"month", "month_loop", "stats", "saved", "raised"}

\* the ordinal of the Monday of the calendar week that contains d
WeekStart(d) == ToOrdinal(d) - Weekday(d)

\* C12: for every reference date, Saturdays and Sundays included, the span of
\* get_previous_week_data is monday = d - (weekday(d) + 7) days, a Monday,
\* and friday = monday + 4 days, both inside the Monday-to-Sunday week just
\* before the week of d, and the function fetches exactly the five dates
\* monday..friday.
C12_PreviousWeekSpan ==
    /\ WeekSpanKnown =>
          /\ ToOrdinal(prev_monday)
                 = ToOrdinal(target_date) - (Weekday(target_date) + 7)
          /\ Weekday(prev_monday) = 0
          /\ ToOrdinal(prev_friday) = ToOrdinal(prev_monday) + 4
          /\ Weekday(prev_friday) = 4
          /\ {ToOrdinal(prev_monday), ToOrdinal(prev_friday)}
                 \subseteq (WeekStart(target_date) - 7)..(WeekStart(target_date) - 1)
    /\ WeekReturned =>
          DatesOf(fetched, "week") = [i \in 1..5 |-> AddDays(prev_monday, i - 1)]

\* the week of a Sunday reference date has been fetched
C12_Witness ==
    /\ at = "month" /\ Weekday(target_date) = 6
    /\ Len(DatesOf(fetched, "week")) = 5
    /\ prev_friday = AddDays(target_date, -9)

\* get_previous_month_data has computed its span
MonthSpanKnown == at \in {"month_loop", "stats", "saved", "raised"}

\* the calendar month before the month of d
MonthBefore(d) ==
    IF d.month = 1 THEN [year |-> d.year - 1, month |-> 12]
    ELSE [year |-> d.year, month |-> d.month - 1]

InSpan(d, first, last) == NotAfter(first, d) /\ NotAfter(d, last)

\* C13: for every reference date the span of get_previous_month_data is the
\* first and the last day of the calendar month before the month of d: the
\* last day is the day before the 1st of d's month and the first day is the
\* 1st of that day's month (December of the year before for a January date,
\* 2024-02-01..2024-02-29 for 2024-03-15); only non-weekend dates of the
\* span are fetched.
C13_PreviousMonthSpan ==
    MonthSpanKnown =>
        LET mb == MonthBefore(target_date)
        IN  /\ ToOrdinal(last_day_prev_month)
                   = ToOrdinal(Date(target_date.year, target_date.month, 1)) - 1
            /\ first_day_prev_month
                   = Date(last_day_prev_month.year, last_day_prev_month.month, 1)
            /\ first_day_prev_month = Date(mb.year, mb.month, 1)
            /\ last_day_prev_month
                   = Date(mb.year, mb.month, DaysInMonth(mb.year, mb.month))
            /\ target_date = Date(2024, 3, 15) =>
                   /\ first_day_prev_month = Date(2024, 2, 1)
                   /\ last_day_prev_month = Date(2024, 2, 29)
            /\ \A d \in Range(DatesOf(fetched, "month")) :
                   /\ InSpan(d, first_day_prev_month, last_day_prev_month)
                   /\ Weekday(d) < 5

\* the leap February has been fetched for 2024-03-15
C13_Witness ==
    /\ at = "stats" /\ target_date = Date(2024, 3, 15)
    /\ last_day_prev_month = Date(2024, 2, 29)
    /\ Len(DatesOf(fetched, "month")) = 21
    /\ prev_month_found.some

\* the loop of line 564 has been left
PrevDaySearchOver ==
    at \in {"week", "week_loop", "month", "month_loop", "stats", "saved",
            "raised"}

\* days back from the target that are weekdays with data, within the budget
DaysWithData(target, no_data) ==
    {k \in 1..MAX_DAYS_BACK :
        /\ Weekday(AddDays(target, -k)) < 5
        /\ ToOrdinal(AddDays(target, -k)) \notin no_data}

Least(S) == CHOOSE k \in S : \A j \in S : k <= j

\* the weekdays among target - 1, ..., target - k, most recent first
RECURSIVE WeekdaysBack(_, _)
WeekdaysBack(target, k) ==
    IF k = 0 THEN <<>>
    ELSE WeekdaysBack(target, k - 1)
             \o (IF Weekday(AddDays(target, -k)) < 5
                 THEN <<AddDays(target, -k)>> ELSE <<>>)

\* C14: the previous-day search tries target - 1, target - 2, ... in that
\* order; it never fetches a Saturday or Sunday, a date on or after the
\* target, or a date more than MAX_DAYS_BACK calendar days before it, and no
\* date is fetched after one that returned data.  When the search is over the
\* previous-day window is the data of the most recent weekday with data within
\* MAX_DAYS_BACK calendar days, and absent when there is none.
C14_PreviousDaySearch ==
    LET tried == DatesOf(fetched, "prev_day")
        with  == DaysWithData(target_date, closed)
    IN  /\ \A i \in 1..Len(tried) :
              /\ Weekday(tried[i]) < 5
              /\ ToOrdinal(tried[i]) < ToOrdinal(target_date)
              /\ ToOrdinal(tried[i]) >= ToOrdinal(target_date) - MAX_DAYS_BACK
              /\ i < Len(tried) =>
                    /\ ToOrdinal(tried[i + 1]) < ToOrdinal(tried[i])
                    /\ ToOrdinal(tried[i]) \in closed
        /\ PrevDaySearchOver =>
              IF with = {}
              THEN /\ prev_day_found = None
                   /\ tried = WeekdaysBack(target_date, MAX_DAYS_BACK)
              ELSE /\ prev_day_found
                          = Frame(<<StrFTime(AddDays(target_date, -Least(with)))>>)
                   /\ tried = WeekdaysBack(target_date, Least(with))

\* a Monday target whose Friday has no data: the weekend is skipped, Friday
\* is fetched in vain and Thursday is found
C14_Witness ==
    /\ at = "week" /\ Weekday(target_date) = 0
    /\ DatesOf(fetched, "prev_day")
           = <<AddDays(target_date, -3), AddDays(target_date, -4)>>
    /\ prev_day_found.some

\* the loop of line 533 has been left
TodaySearchOver == at # "today"

\* days back from the clock that are weekdays with data, within the budget
TradingDaysBack(clock, no_data) ==
    {k \in 0..(MAX_DAYS_BACK - 1) :
        /\ Weekday(AddDays(clock, -k)) < 5
        /\ ToOrdinal(AddDays(clock, -k)) \notin no_data}

\* C15: the search for the most recent trading day starts at the current
\* date and steps back one calendar day at a time; it makes at most
\* MAX_DAYS_BACK iterations, weekend days taking one without a fetch, and
\* selects the first non-weekend date whose fetch returns data; when no date
\* of the budget has data the run ends without fetching a historical window,
\* classifying or writing a report.
C15_TodaySearch ==
    LET tried  == DatesOf(fetched, "today")
        open   == TradingDaysBack(now, closed)
        rounds == attempts + (IF today_found.some THEN 1 ELSE 0)
    IN  /\ date_to_try = AddDays(now, -attempts)
        /\ rounds <= MAX_DAYS_BACK
        /\ \A i \in 1..Len(tried) :
              /\ Weekday(tried[i]) < 5
              /\ ToOrdinal(tried[i]) \in
                     (ToOrdinal(now) - (MAX_DAYS_BACK - 1))..ToOrdinal(now)
              /\ i < Len(tried) =>
                    /\ ToOrdinal(tried[i + 1]) < ToOrdinal(tried[i])
                    /\ ToOrdinal(tried[i]) \in closed
        /\ TodaySearchOver =>
              IF open = {}
              THEN /\ ~today_found.some
                   /\ at = "returned"
                   /\ attempts = MAX_DAYS_BACK
                   /\ fetched = [i \in 1..Len(tried) |-> Call("today", tried[i])]
              ELSE /\ today_date = StrFTime(AddDays(now, -Least(open)))
                   /\ today_found = Frame(<<today_date>>)
                   /\ date_to_try = AddDays(now, -Least(open))

\* five days without data, two of them a weekend: the run has ended after
\* three fetches and nothing else
C15_Witness ==
    /\ at = "returned" /\ ~today_found.some
    /\ attempts = MAX_DAYS_BACK
    /\ Len(fetched) = 3
    /\ Weekday(now) = 1

\* the daily outcomes of an emitted record
DailyOutcomes ==
    {"Daily Breakout", "Daily Breakdown", "Daily Within Range", "Daily Data Error"}

\* C16: every emitted record has a daily status among Breakout, Breakdown,
\* Within Range and Data Error, never the initial "N/A": when the
\* previous-day comparison left it undecided (no error, and a previous-day
\* high or low still "N/A") the status is the LDCP comparison of today's row,
\* an empty close or ldcp counting as 0.  Weekly and monthly statuses may
\* stay "N/A".
C16Case(row, rec) ==
    /\ rec.DAILY_STATUS \in DailyOutcomes
    /\ rec.DAILY_STATUS # "N/A"
    /\ rec.WEEKLY_STATUS = "N/A" => ~Found(prev_week_data, row.SYMBOL)
    /\ rec.MONTHLY_STATUS = "N/A" => ~Found(prev_month_data, row.SYMBOL)
    /\ (/\ rec.DAILY_STATUS # "Daily Data Error"
        /\ rec.PREV_DAY_HIGH = NAText \/ rec.PREV_DAY_LOW = NAText)
           => rec.DAILY_STATUS = LdcpStatus(row)

C16_DailyStatusAlwaysDecided ==
    [][Emits => C16Case(today_data[idx], results'[Len(results')])]_vars

\* a record of a row with an empty close and no history at all: the fallback
\* compared 0 with the ldcp, the weekly and monthly statuses stayed "N/A"
C16_Witness ==
    /\ ~prev_day_data.some /\ ~prev_week_data.some /\ ~prev_month_data.some
    /\ \E k \in 1..Len(results) :
          /\ results[k].CLOSE = Text(<<"0", ".", "0", "0">>)
          /\ results[k].DAILY_STATUS = "Daily Breakdown"
          /\ results[k].WEEKLY_STATUS = "N/A"
          /\ results[k].MONTHLY_STATUS = "N/A"

(***************************************************************************)
(* fetch_psx, src/data_loader.py lines 6-30.  A response is what one       *)
(* requests.post gave: an exception, or a status and a text; of the text   *)
(* the model keeps whether it holds "Date" and whether lines 18-24 parse   *)
(* it without an exception.                                                *)
(* outcome: "running" inside the loop, "returned" after line 25, "raised"  *)
(* after the RuntimeError of line 30.                                      *)
(***************************************************************************)
\* most retries a call asks for
MaxRetries == 3

Delays == {0, 1}

Responses ==
    [raised : {TRUE}, status : {0}, has_date : {FALSE}, parses : {FALSE}]
    \cup [raised : {FALSE}, status : {200, 500}, has_date : BOOLEAN,
          parses : BOOLEAN]

\* the condition of line 17
Accepted(r) == r.status = 200 /\ r.has_date

\* an exception reaches line 26 from the request only
RaisesInRequestOnly(r) == r.raised

\* an exception reaches line 26: from the request, or from the parsing of an
\* accepted response
Raises(r) == r.raised \/ (Accepted(r) /\ ~r.parses)

InitFetch ==
    /\ StatsIdle /\ DatesIdle
    /\ retries \in 0..MaxRetries
    /\ delay \in Delays
    /\ attempt = 0
    /\ responses = <<>>
    /\ sleeps = <<>>
    /\ df = 0
    /\ outcome = "running"

\* one iteration of the loop of lines 14-28
Attempt ==
    /\ outcome = "running" /\ attempt < retries
    /\ \E r \in Responses :
          /\ responses' = Append(responses, r)
          /\ IF Raises(r)
             THEN /\ sleeps' = Append(sleeps, [after |-> attempt + 1, secs |-> delay])
                  /\ attempt' = attempt + 1
                  /\ UNCHANGED <<outcome, df>>
             ELSE IF Accepted(r)
             THEN /\ outcome' = "returned"
                  /\ df' = attempt + 1
                  /\ UNCHANGED <<sleeps, attempt>>
             ELSE /\ attempt' = attempt + 1
                  /\ UNCHANGED <<sleeps, outcome, df>>
    /\ UNCHANGED <<retries, delay>>
    /\ UNCHANGED <<statsvars, datevars>>

\* line 30
GiveUp ==
    /\ outcome = "running" /\ attempt >= retries
    /\ outcome' = "raised"
    /\ UNCHANGED <<retries, delay, attempt, responses, sleeps, df>>
    /\ UNCHANGED <<statsvars, datevars>>

NextFetch == Attempt \/ GiveUp

SpecFetch == InitFetch /\ [][NextFetch]_vars

\* the attempts whose response satisfies p
Attempts(p(_)) == {i \in 1..Len(responses) : p(responses[i])}

RequestRaised(r) == r.raised

Parsed(r) == Accepted(r) /\ r.parses

\* the attempts each sleep followed, and the lengths of the sleeps
SleptAfter == {sleeps[i].after : i \in 1..Len(sleeps)}

SleepsInOrder ==
    /\ \A i \in 1..Len(sleeps) : sleeps[i].secs = delay
    /\ \A i, j \in 1..Len(sleeps) : i < j => sleeps[i].after < sleeps[j].after

\* C17 as stated: at most `retries` requests; the frame is returned from the
\* first attempt whose response has status 200 and holds "Date", and no
\* request follows it; exactly the attempts that raise are followed by a
\* sleep of `delay`; after `retries` unsuccessful attempts the call raises
\* RuntimeError and returns nothing.
C17_Original_ReturnsOnFirstAcceptedResponse ==
    /\ Len(responses) <= retries
    /\ \A i \in Attempts(Accepted) :
          outcome = "returned" /\ df = i /\ Len(responses) = i
    /\ outcome = "returned" => df \in Attempts(Accepted)
    /\ SleptAfter = Attempts(RequestRaised) /\ SleepsInOrder
    /\ outcome = "raised" =>
          Len(responses) = retries /\ Attempts(Accepted) = {} /\ df = 0

\* C17: at most `retries` requests, one per attempt in order; the frame is
\* returned from the first attempt whose response has status 200, holds
\* "Date" and parses without an exception, and no request follows it; an
\* attempt that raises, in the request or while parsing an accepted response,
\* is followed by a sleep of `delay` and any other failed attempt by none;
\* after `retries` attempts without a parsed frame (retries = 0 included) the
\* call raises RuntimeError and returns nothing.
C17_ReturnsOnFirstParsedResponse ==
    /\ Len(responses) <= retries
    /\ Len(responses) = attempt + (IF outcome = "returned" THEN 1 ELSE 0)
    /\ \A i \in Attempts(Parsed) :
          outcome = "returned" /\ df = i /\ Len(responses) = i
    /\ outcome = "returned" => df \in Attempts(Parsed)
    /\ SleptAfter = Attempts(Raises) /\ SleepsInOrder
    /\ outcome = "raised" =>
          Len(responses) = retries /\ Attempts(Parsed) = {} /\ df = 0
    /\ (outcome = "running" /\ Len(responses) = retries) => ENABLED GiveUp

\* a frame returned by the third attempt, after an accepted response that
\* did not parse and was slept on, and a bad response that was not
C17_Witness ==
    /\ outcome = "returned" /\ df = 3
    /\ Accepted(responses[1]) /\ ~responses[1].parses
    /\ ~responses[2].raised /\ responses[2].status = 500
    /\ sleeps = <<[after |-> 1, secs |-> delay]>>
    /\ delay = 1

====
